---- MODULE Spec2Model ----
(***************************************************************************)
(* Coordinates< nonblocking >: the sparsity structure of the nonblocking   *)
(* backend (include/graphblas/nonblocking/coordinates.hpp), its sequential *)
(* contract (assign, clear, queries) and its tile protocol                 *)
(* (localCoordinatesInit, asyncSubsetInit, asyncSubset, asyncJoinSubset,   *)
(* newNonZeroes, prefixSumComputation, joinSubset).                        *)
(*                                                                         *)
(* Memory is modelled as the code addresses it: _assigned and _stack are   *)
(* arrays of _cap slots, _buffer is one flat array of scratch slots into   *)
(* which local_buffer[ t ], local_new_nnzs and pref_sum are offsets. A     *)
(* slot that was never written holds Undef; a read of such a slot yields   *)
(* an arbitrary value.                                                     *)
(***************************************************************************)
EXTENDS Integers, Sequences, FiniteSets, TLC

\* Largest container dimension explored.
MaxCap == 3

\* Largest tile size the prefix-sum's own analytic model may pick.
MaxPrefixTile == 3

\* Marks a slot that was never written (uninitialised memory).
Undef == 0 - 999

VARIABLES
    _cap,            \* size_t _cap: the dimension
    _n,              \* size_t _n: the number of nonzeroes
    _assigned,       \* bool * _assigned: the presence array
    _stack,          \* StackType * _stack: the compacted stack
    _buffer,         \* StackType * _buffer: the scratch buffer
    _buf,            \* size_t _buf: the number of scratch slots
    analytic_model,  \* AnalyticModel analytic_model
    local_buffer,    \* std::vector: per tile, the offset of its segment
    local_new_nnzs,  \* offset of the per-tile new-nonzero counters
    pref_sum,        \* offset of the per-tile prefix sums
    tiles,           \* the ranges (lower, upper) the engine hands out
    pc,              \* per range: how far its worker has come
    view,            \* per range: the Coordinates that asyncSubset returned
    phase,           \* "Idle", "Episode" or "Reconciled"
    episode,         \* the number of episodes begun
    op,              \* the last call on the global structure
    ret,             \* the value the last assign on it returned
    g_pre,           \* the structure as it was when the episode began
    g_ins,           \* the global indices assigned through views so far
    g_since,         \* the indices assign was called for since the last clear
    g_cleared,       \* the branch the last clear() took, "none" before it
    g_prev,          \* the sequential call before the last one
    g_chunks,        \* chunks of the last prefix sum, 0 on its sequential branch
    g_early,         \* a tile with new nonzeroes was joined before the prefix sum
    g_skipped,       \* the episodes in which a tile was left without joinSubset
    g_calls,         \* the bulk calls of the episode, as << name, range >>
    fault,           \* an access outside the bound arrays has happened
    at,              \* per range: where its worker is inside assign( j )
    touched,         \* per range: the shared slots its worker read and wrote
    objs,            \* the Coordinates objects that are copied and moved
    loop             \* the parallel loop of clear(): what is left of it

vars == << _cap, _n, _assigned, _stack, _buffer, _buf, analytic_model,
           local_buffer, local_new_nnzs, pref_sum, tiles, pc, view, phase,
           episode, op, ret, g_pre, g_ins, g_since, g_cleared, g_prev,
           g_chunks, g_early, g_skipped, g_calls, fault, at, touched,
           objs,
           loop >>

coord == << _cap, _n, _assigned, _stack >>
scratch == << _buffer, _buf >>
bindings == << analytic_model, local_buffer, local_new_nnzs, pref_sum >>
workers == << tiles, pc, view >>
history == << op, ret, g_since, g_cleared, g_prev >>
order == << g_chunks, g_early, g_skipped, g_calls >>
micro == << at, touched >>

----------------------------------------------------------------------------
\* Helpers

Min(a, b) == IF a < b THEN a ELSE b

Call(name, w, i) == [ name |-> name, w |-> w, i |-> i ]

\* The global structure as one Coordinates value.
This == [ assigned |-> _assigned, stack |-> _stack, n |-> _n, cap |-> _cap ]

NoCoord == [ assigned |-> << >>, stack |-> << >>, n |-> 0, cap |-> 0 ]

NoView == [ assigned |-> 0, stack |-> 0, n |-> 0, cap |-> 0 ]

\* The entries of c's stack below its count.
StackSet(c) == { c.stack[k] : k \in 0 .. c.n - 1 }

Present(c) == { i \in 0 .. c.cap - 1 : c.assigned[i] }

\* I1 of the specification, for a Coordinates value.
I1(c) ==
    /\ c.n <= c.cap
    /\ \A k1, k2 \in 0 .. c.n - 1 : c.stack[k1] = c.stack[k2] => k1 = k2
    /\ StackSet(c) = Present(c)

----------------------------------------------------------------------------
\* NONBLOCKING::vectorBufferSize( n ): the scratch slots of an n-vector.
vectorBufferSize(dim) == 4 * dim

\* Coordinates::set( arr, arr_initialized, buf, dim ) on fresh memory.
set(dim) ==
    /\ _cap = dim
    /\ _n = 0
    /\ _assigned = [ i \in 0 .. dim - 1 |-> FALSE ]
    /\ _stack = [ k \in 0 .. dim - 1 |-> Undef ]
    /\ _buf = vectorBufferSize( dim )
    /\ _buffer = [ a \in 0 .. vectorBufferSize( dim ) - 1 |-> Undef ]

\* Coordinates::assign( i ): the new Coordinates value and the return value.
assignNoPresenceTest(c, i) ==
    IF c.n = c.cap
    THEN [ c |-> c, ret |-> TRUE ]
    ELSE [ c |-> [ c EXCEPT !.assigned[i] = TRUE, !.stack[c.n] = i,
                            !.n = c.n + 1 ],
           ret |-> FALSE ]

assignNoStackWrite(c, i) ==
    IF c.n = c.cap
    THEN [ c |-> c, ret |-> TRUE ]
    ELSE IF ~ c.assigned[i]
         THEN [ c |-> [ c EXCEPT !.assigned[i] = TRUE, !.n = c.n + 1 ],
                ret |-> FALSE ]
         ELSE [ c |-> c, ret |-> TRUE ]

assignReturnsFalse(c, i) ==
    IF c.n = c.cap
    THEN [ c |-> c, ret |-> FALSE ]
    ELSE IF ~ c.assigned[i]
         THEN [ c |-> [ c EXCEPT !.assigned[i] = TRUE, !.stack[c.n] = i,
                                 !.n = c.n + 1 ],
                ret |-> FALSE ]
         ELSE [ c |-> c, ret |-> FALSE ]

\* assign that puts the new index below the last entry of the stack.
assignBeforeLast(c, i) ==
    IF c.n = c.cap
    THEN [ c |-> c, ret |-> TRUE ]
    ELSE IF ~ c.assigned[i]
         THEN [ c |-> [ c EXCEPT !.assigned[i] = TRUE,
                                 !.stack = [ k \in DOMAIN c.stack |->
                                     IF c.n > 0 /\ k = c.n - 1 THEN i
                                     ELSE IF k = c.n
                                          THEN IF c.n > 0
                                               THEN c.stack[c.n - 1]
                                               ELSE i
                                          ELSE c.stack[k] ],
                                 !.n = c.n + 1 ],
                ret |-> FALSE ]
         ELSE [ c |-> c, ret |-> TRUE ]

assign(c, i) ==
    IF c.n = c.cap
    THEN [ c |-> c, ret |-> TRUE ]
    ELSE IF ~ c.assigned[i]
         THEN [ c |-> [ c EXCEPT !.assigned[i] = TRUE, !.stack[c.n] = i,
                                 !.n = c.n + 1 ],
                ret |-> FALSE ]
         ELSE [ c |-> c, ret |-> TRUE ]

\* Coordinates::clear(): the dense branch wipes every presence slot, the
\* sparse branch those the stack names; both then reset the count.
clearSparseKeepsPresence(c) ==
    [ c EXCEPT
        !.assigned = IF c.n = c.cap
                     THEN [ i \in DOMAIN c.assigned |->
                              IF i < c.cap THEN FALSE ELSE c.assigned[i] ]
                     ELSE c.assigned,
        !.n = 0 ]

clear(c) ==
    [ c EXCEPT
        !.assigned = IF c.n = c.cap
                     THEN [ i \in DOMAIN c.assigned |->
                              IF i < c.cap THEN FALSE ELSE c.assigned[i] ]
                     ELSE [ i \in DOMAIN c.assigned |->
                              IF \E k \in 0 .. c.n - 1 : c.stack[k] = i
                              THEN FALSE
                              ELSE c.assigned[i] ],
        !.n = 0 ]

\* Coordinates::isDense()
isDense(c) == c.n = c.cap

\* Coordinates::index( k )
indexReadsStack(c, k) == c.stack[k]

index(c, k) == IF isDense( c ) THEN k ELSE c.stack[k]

\* local_assignAll< maybe_invalid >() on the Coordinates value c. The
\* result carries, besides c, the values stored through local_nnzs
\* (= _stack - 1) in order, and whether an assertion failed.
local_assignAllKeepsStack(c, maybe_invalid) ==
    LET enter == maybe_invalid \/ c.n # c.cap
    IN  [ c |-> IF enter
                THEN [ c EXCEPT
                         !.n = c.cap,
                         !.assigned = [ i \in DOMAIN c.assigned |->
                                          IF i < c.cap THEN TRUE
                                          ELSE c.assigned[i] ] ]
                ELSE c,
          local_nnzs |-> << 0 >>,
          fault |-> enter /\ ~ ( IF maybe_invalid THEN c.n <= c.cap
                                 ELSE c.n < c.cap ) ]

local_assignAllKeepsCount(c, maybe_invalid) ==
    LET enter == maybe_invalid \/ c.n # c.cap
    IN  [ c |-> IF enter
                THEN [ c EXCEPT
                         !.n = c.cap,
                         !.assigned = [ i \in DOMAIN c.assigned |->
                                          IF i < c.cap THEN TRUE
                                          ELSE c.assigned[i] ],
                         !.stack = [ i \in DOMAIN c.stack |->
                                       IF i < c.cap THEN i ELSE c.stack[i] ] ]
                ELSE c,
          local_nnzs |-> << >>,
          fault |-> enter /\ ~ ( IF maybe_invalid THEN c.n <= c.cap
                                 ELSE c.n < c.cap ) ]

\* local_clear that leaves the counter in front of the local stack as it
\* is.
local_clearKeepsLocalCount(c) ==
    [ c |-> clear( c ),
      local_nnzs |-> << >>,
      fault |-> c.n # c.cap /\ \E k \in 0 .. c.n - 1 :
                                   c.stack[k] \notin DOMAIN c.assigned ]

\* Coordinates::local_clear(): the loops of clear(), _n = 0, and zero in
\* the slot in front of the stack.
local_clear(c) ==
    [ c |-> clear( c ),
      local_nnzs |-> << 0 >>,
      fault |-> c.n # c.cap /\ \E k \in 0 .. c.n - 1 :
                                   c.stack[k] \notin DOMAIN c.assigned ]

local_assignAll(c, maybe_invalid) ==
    LET enter == maybe_invalid \/ c.n # c.cap
    IN  [ c |-> IF enter
                THEN [ c EXCEPT
                         !.n = c.cap,
                         !.assigned = [ i \in DOMAIN c.assigned |->
                                          IF i < c.cap THEN TRUE
                                          ELSE c.assigned[i] ],
                         !.stack = [ i \in DOMAIN c.stack |->
                                       IF i < c.cap THEN i ELSE c.stack[i] ] ]
                ELSE c,
          local_nnzs |-> << 0 >>,
          fault |-> enter /\ ~ ( IF maybe_invalid THEN c.n <= c.cap
                                 ELSE c.n < c.cap ) ]

\* The loop of local_assignAllNotAlreadyAssigned from index i on:
\* if( !_assigned[ i ] ) { _assigned[ i ] = true; _stack[ _n++ ] = i; }
RECURSIVE appendNotAssigned(_, _)
appendNotAssigned(c, i) ==
    IF i >= c.cap
    THEN c
    ELSE appendNotAssigned(
             IF ~ c.assigned[i]
             THEN [ c EXCEPT !.assigned[i] = TRUE,
                             !.stack[c.n] = i,
                             !.n = c.n + 1 ]
             ELSE c,
             i + 1 )

\* The same loop without the presence test.
RECURSIVE appendEvery(_, _)
appendEvery(c, i) ==
    IF i >= c.cap
    THEN c
    ELSE appendEvery( [ c EXCEPT !.assigned[i] = TRUE,
                                 !.stack[c.n] = i,
                                 !.n = c.n + 1 ],
                      i + 1 )

local_assignAllNotAlreadyAssignedAppendsEvery(c, maybe_invalid) ==
    LET enter == maybe_invalid \/ c.n # c.cap
        r == IF enter THEN appendEvery( c, 0 ) ELSE c
    IN  [ c |-> r,
          local_nnzs |-> << >>,
          fault |-> enter /\ ( ~ ( IF maybe_invalid THEN c.n <= c.cap
                                   ELSE c.n < c.cap )
                               \/ r.n # r.cap ) ]

\* local_assignAllNotAlreadyAssigned< maybe_invalid >() on c; it stores
\* nothing through _stack - 1.
local_assignAllNotAlreadyAssigned(c, maybe_invalid) ==
    LET enter == maybe_invalid \/ c.n # c.cap
        r == IF enter THEN appendNotAssigned( c, 0 ) ELSE c
    IN  [ c |-> r,
          local_nnzs |-> << >>,
          fault |-> enter /\ ( ~ ( IF maybe_invalid THEN c.n <= c.cap
                                   ELSE c.n < c.cap )
                               \/ r.n # r.cap ) ]

----------------------------------------------------------------------------
\* No parallel loop of clear() is running or has run.
NoLoop == [ branch |-> "none", todo |-> {}, before |-> NoCoord, writes |-> << >> ]

\* The state after construction and set() on fresh memory of dimension dim.
Bound(dim) ==
    /\ set( dim )
    /\ analytic_model = [ tile_size |-> 0, num_tiles |-> 0 ]
    /\ local_buffer = << >>
    /\ local_new_nnzs = Undef
    /\ pref_sum = Undef
    /\ tiles = << >>
    /\ pc = << >>
    /\ view = << >>
    /\ phase = "Idle"
    /\ episode = 0
    /\ op = Call( "set", 0, dim )
    /\ ret = FALSE
    /\ g_pre = NoCoord
    /\ g_ins = {}
    /\ g_since = {}
    /\ g_cleared = "none"
    /\ g_prev = Call( "none", 0, 0 )
    /\ g_chunks = 0
    /\ g_early = FALSE
    /\ g_skipped = {}
    /\ g_calls = {}
    /\ fault = FALSE
    /\ at = << >>
    /\ touched = << >>
    /\ loop = NoLoop

\* assign( i ) on the global structure, outside an episode.
Assign(i) ==
    /\ phase = "Idle"
    /\ LET r == assign( This, i )
       IN  /\ _assigned' = r.c.assigned
           /\ _stack' = r.c.stack
           /\ _n' = r.c.n
           /\ ret' = r.ret
    /\ op' = Call( "assign", 0, i )
    /\ g_since' = g_since \cup { i }
    /\ g_prev' = op
    /\ UNCHANGED g_cleared
    /\ g_pre' = NoCoord
    /\ g_ins' = {}
    /\ UNCHANGED << _cap, scratch, bindings, workers, phase, episode, loop, objs, micro, order,
                    fault >>

\* clear() on the global structure, outside an episode.
Clear ==
    /\ phase = "Idle"
    /\ LET c == clear( This )
       IN  /\ _assigned' = c.assigned
           /\ _stack' = c.stack
           /\ _n' = c.n
    /\ op' = Call( "clear", 0, 0 )
    /\ ret' = FALSE
    /\ g_since' = {}
    /\ g_cleared' = IF isDense( This ) THEN "dense" ELSE "sparse"
    /\ g_prev' = op
    /\ g_pre' = NoCoord
    /\ g_ins' = {}
    /\ UNCHANGED << _cap, scratch, bindings, workers, phase, episode, loop, objs, micro, order,
                    fault >>

----------------------------------------------------------------------------
\* The sequential contract: assign and clear on a freshly bound structure.
InitSeq == objs = << >> /\ \E dim \in 1 .. MaxCap : Bound( dim )

NextSeq ==
    \/ \E i \in 0 .. _cap - 1 : Assign( i )
    \/ Clear

SpecSeq == InitSeq /\ [][NextSeq]_vars

----------------------------------------------------------------------------
\* The tile protocol

\* AnalyticModel: the tile size it picks for a vector of vector_size
\* elements is given; the number of tiles follows from it.
AnalyticModel(tile_size, vector_size) ==
    [ tile_size |-> tile_size,
      num_tiles |-> IF vector_size = 0
                    THEN 0
                    ELSE ( vector_size + tile_size - 1 ) \div tile_size ]

\* The tiles of an analytic model over [0, dim): tile t is
\* [t * tile_size, min( (t + 1) * tile_size, dim )).
UniformTiles(am, dim) ==
    [ w \in 1 .. am.num_tiles |->
        [ lower |-> ( w - 1 ) * am.tile_size,
          upper |-> Min( w * am.tile_size, dim ) ] ]

\* A read of slot a of mem; g is what a never-written slot yields.
Rd(mem, a, g) == IF a \in DOMAIN mem /\ mem[a] # Undef THEN mem[a] ELSE g

\* A write of v to slot a of mem.
Wr(mem, a, v) == IF a \in DOMAIN mem THEN [ mem EXCEPT ![a] = v ] ELSE mem

\* The values an uninitialised slot may yield.
Garbage == 0 .. _cap

\* const size_t tile_id = lower_bound / analytic_model.getTileSize();
TileId(lower_bound) == lower_bound \div analytic_model.tile_size

\* localCoordinatesInit that counts no local-count slots when it places
\* the counters and the prefix sums.
localCoordinatesInitCountersEarly(am) ==
    /\ analytic_model' = am
    /\ local_buffer' = [ tile_id \in 0 .. am.num_tiles - 1 |->
                           tile_id * ( am.tile_size + 1 ) ]
    /\ local_new_nnzs' = am.num_tiles * am.tile_size
    /\ pref_sum' = am.num_tiles * ( am.tile_size + 1 )

localCoordinatesInitPacked(am) ==
    /\ analytic_model' = am
    /\ local_buffer' = [ tile_id \in 0 .. am.num_tiles - 1 |->
                           tile_id * am.tile_size ]
    /\ local_new_nnzs' = am.num_tiles * ( am.tile_size + 1 )
    /\ pref_sum' = am.num_tiles * ( am.tile_size + 2 )

\* localCoordinatesInit( am ): binds the tile segments, the counters and the
\* prefix sums to their places in _buffer.
localCoordinatesInit(am) ==
    /\ analytic_model' = am
    /\ local_buffer' = [ tile_id \in 0 .. am.num_tiles - 1 |->
                           tile_id * ( am.tile_size + 1 ) ]
    /\ local_new_nnzs' = am.num_tiles * ( am.tile_size + 1 )
    /\ pref_sum' = am.num_tiles * ( am.tile_size + 2 )

\* asyncSubsetInit, first branch: the tile's range against _assigned.
RECURSIVE scanAssigned(_, _, _)
scanAssigned(i, lower_bound, upper_bound) ==
    IF i >= upper_bound
    THEN << >>
    ELSE ( IF _assigned[i] THEN << i - lower_bound >> ELSE << >> )
         \o scanAssigned( i + 1, lower_bound, upper_bound )

\* asyncSubsetInit, second branch: the global stack filtered to the range.
RECURSIVE scanStack(_, _, _)
scanStack(i, lower_bound, upper_bound) ==
    IF i >= _n
    THEN << >>
    ELSE ( IF lower_bound <= _stack[i] /\ _stack[i] < upper_bound
           THEN << _stack[i] - lower_bound >>
           ELSE << >> )
         \o scanStack( i + 1, lower_bound, upper_bound )

\* asyncSubsetInit whose second branch stores k, not k - lower_bound.
asyncSubsetInitStoresGlobalIndex(lower_bound, upper_bound) ==
    LET tile_id == TileId( lower_bound )
        local_nnzs == local_buffer[tile_id]
        local_stack == local_buffer[tile_id] + 1
        found == IF upper_bound - lower_bound < _n
                 THEN scanAssigned( lower_bound, lower_bound, upper_bound )
                 ELSE [ k \in DOMAIN scanStack( 0, lower_bound, upper_bound ) |->
                          scanStack( 0, lower_bound, upper_bound )[k]
                          + lower_bound ]
    IN  IF _cap = 0 THEN _buffer ELSE
        [ a \in DOMAIN _buffer |->
            IF a = local_new_nnzs + tile_id THEN 0
            ELSE IF a = local_nnzs THEN Len( found )
            ELSE IF a - local_stack \in 0 .. Len( found ) - 1
                 THEN found[a - local_stack + 1]
                 ELSE _buffer[a] ]

\* asyncSubsetInit that chooses its branch by the number of indices
\* present now, not by the global count.
asyncSubsetInitBranchOnPresent(lower_bound, upper_bound) ==
    LET tile_id == TileId( lower_bound )
        local_nnzs == local_buffer[tile_id]
        local_stack == local_buffer[tile_id] + 1
        found == IF upper_bound - lower_bound < Cardinality( Present( This ) )
                 THEN scanAssigned( lower_bound, lower_bound, upper_bound )
                 ELSE scanStack( 0, lower_bound, upper_bound )
    IN  IF _cap = 0 THEN _buffer ELSE
        [ a \in DOMAIN _buffer |->
            IF a = local_new_nnzs + tile_id THEN 0
            ELSE IF a = local_nnzs THEN Len( found )
            ELSE IF a - local_stack \in 0 .. Len( found ) - 1
                 THEN found[a - local_stack + 1]
                 ELSE _buffer[a] ]

\* asyncSubsetInit( lower_bound, upper_bound ): the scratch buffer it leaves.
asyncSubsetInit(lower_bound, upper_bound) ==
    LET tile_id == TileId( lower_bound )
        local_nnzs == local_buffer[tile_id]
        local_stack == local_buffer[tile_id] + 1
        found == IF upper_bound - lower_bound < _n
                 THEN scanAssigned( lower_bound, lower_bound, upper_bound )
                 ELSE scanStack( 0, lower_bound, upper_bound )
    IN  IF _cap = 0 THEN _buffer ELSE
        [ a \in DOMAIN _buffer |->
            IF a = local_new_nnzs + tile_id THEN 0
            ELSE IF a = local_nnzs THEN Len( found )
            ELSE IF a - local_stack \in 0 .. Len( found ) - 1
                 THEN found[a - local_stack + 1]
                 ELSE _buffer[a] ]

asyncSubsetCountsOldOnly(lower_bound, upper_bound, g) ==
    LET tile_id == TileId( lower_bound )
    IN  [ assigned |-> lower_bound,
          stack |-> local_buffer[tile_id] + 1,
          n |-> Rd( _buffer, local_buffer[tile_id], g ),
          cap |-> upper_bound - lower_bound ]

\* asyncSubset whose view's stack starts at the slot of the local count.
asyncSubsetStackAtLocalCount(lower_bound, upper_bound, g) ==
    LET tile_id == TileId( lower_bound )
    IN  [ assigned |-> lower_bound,
          stack |-> local_buffer[tile_id],
          n |-> Rd( _buffer, local_buffer[tile_id], g )
                + Rd( _buffer, local_new_nnzs + tile_id, g ),
          cap |-> upper_bound - lower_bound ]

\* asyncSubset( lower_bound, upper_bound ): the Coordinates it returns; its
\* presence array starts at _assigned + lower_bound, its stack at the
\* tile's local stack.
asyncSubset(lower_bound, upper_bound, g) ==
    LET tile_id == TileId( lower_bound )
    IN  [ assigned |-> lower_bound,
          stack |-> local_buffer[tile_id] + 1,
          n |-> Rd( _buffer, local_buffer[tile_id], g )
                + Rd( _buffer, local_new_nnzs + tile_id, g ),
          cap |-> upper_bound - lower_bound ]

\* The Coordinates value a view stands for: its _assigned is the global
\* presence array from slot v.assigned on, its _stack the scratch buffer
\* from slot v.stack on.
Deref(v) ==
    [ assigned |-> [ j \in 0 .. _cap - 1 - v.assigned |->
                       _assigned[v.assigned + j] ],
      stack |-> [ k \in 0 .. _buf - 1 - v.stack |-> _buffer[v.stack + k] ],
      n |-> v.n,
      cap |-> v.cap ]

asyncJoinSubsetStoresCount(subset, lower_bound, g) ==
    Wr( _buffer, local_new_nnzs + TileId( lower_bound ), subset.n )

asyncJoinSubsetLastRoundOnly(subset, lower_bound, g) ==
    LET tile_id == TileId( lower_bound )
    IN  Wr( _buffer, local_new_nnzs + tile_id,
            subset.n - Rd( _buffer, local_buffer[tile_id], g )
                     - Rd( _buffer, local_new_nnzs + tile_id, g ) )

\* asyncJoinSubset with the operands of the subtraction exchanged.
asyncJoinSubsetExchangedOperands(subset, lower_bound, g) ==
    LET tile_id == TileId( lower_bound )
    IN  Wr( _buffer, local_new_nnzs + tile_id,
            Rd( _buffer, local_buffer[tile_id], g ) - subset.n )

\* asyncJoinSubset( subset, lower_bound, upper_bound ): the buffer it leaves.
asyncJoinSubset(subset, lower_bound, g) ==
    LET tile_id == TileId( lower_bound )
    IN  Wr( _buffer, local_new_nnzs + tile_id,
            subset.n - Rd( _buffer, local_buffer[tile_id], g ) )

newNonZeroesFirstTileOnly(g) ==
    IF _cap = 0
    THEN FALSE
    ELSE Rd( _buffer, local_new_nnzs, g ) # 0

\* newNonZeroes()
newNonZeroes(g) ==
    IF _cap = 0
    THEN FALSE
    ELSE \E i \in 0 .. analytic_model.num_tiles - 1 :
             Rd( _buffer, local_new_nnzs + i, g ) # 0

\* localRange whose share reaches one slot into the next one.
localRangeSharesBoundary(start, end, block_size, t, T) ==
    LET len == end - start
        blocks == len \div block_size
                  + ( IF len % block_size > 0 THEN 1 ELSE 0 )
        blocks_per_thread == blocks \div T
                             + ( IF blocks % T > 0 THEN 1 ELSE 0 )
        local_start == start + t * blocks_per_thread * block_size
        local_end == Min( local_start + blocks_per_thread * block_size + 1,
                          end )
    IN  [ lower |-> Min( local_start, local_end ), upper |-> local_end ]

\* config::OMP::localRange( lower, upper, start, end, block_size, t, T ):
\* the t-th of T shares of [start, end), in whole blocks.
localRange(start, end, block_size, t, T) ==
    LET len == end - start
        blocks == len \div block_size
                  + ( IF len % block_size > 0 THEN 1 ELSE 0 )
        blocks_per_thread == blocks \div T
                             + ( IF blocks % T > 0 THEN 1 ELSE 0 )
        local_start == start + t * blocks_per_thread * block_size
        local_end == Min( local_start + blocks_per_thread * block_size, end )
    IN  [ lower |-> Min( local_start, local_end ), upper |-> local_end ]

\* for( i = from; i < to; i++ ) pref_sum[ i ] = pref_sum[ i - 1 ] +
\*                                              local_new_nnzs[ i ];
RECURSIVE prefixLoopAddsPreviousCounter(_, _, _, _)
prefixLoopAddsPreviousCounter(mem, i, to, g) ==
    IF i >= to
    THEN mem
    ELSE prefixLoopAddsPreviousCounter(
             Wr( mem, pref_sum + i,
                 Rd( mem, pref_sum + i - 1, g )
                 + Rd( mem, local_new_nnzs + i - 1, g ) ),
             i + 1, to, g )

RECURSIVE prefixLoop(_, _, _, _)
prefixLoop(mem, i, to, g) ==
    IF i >= to
    THEN mem
    ELSE prefixLoop( Wr( mem, pref_sum + i,
                         Rd( mem, pref_sum + i - 1, g )
                         + Rd( mem, local_new_nnzs + i, g ) ),
                     i + 1, to, g )

prefixSumSequentialFromZero(mem, num_tiles, g) ==
    prefixLoop( Wr( mem, pref_sum, Rd( mem, local_new_nnzs, g ) ),
                1, num_tiles, g )

\* prefixSumComputation, sequential branch.
prefixSumSequential(mem, num_tiles, g) ==
    prefixLoop( Wr( mem, pref_sum, _n + Rd( mem, local_new_nnzs, g ) ),
                1, num_tiles, g )

\* prefixSumComputation, parallel branch, first loop: every chunk sums its
\* own counters and stores its total in local_prefix_sum[ id ].
RECURSIVE prefixSumLocal(_, _, _, _, _, _)
prefixSumLocal(st, id, num_tiles, prefix_sum_tile_size, prefix_sum_num_tiles, g) ==
    IF id >= prefix_sum_num_tiles
    THEN st
    ELSE LET r == localRange( 0, num_tiles, prefix_sum_tile_size, id,
                              prefix_sum_num_tiles )
             mem == prefixLoop(
                        Wr( st.mem, pref_sum + r.lower,
                            Rd( st.mem, local_new_nnzs + r.lower, g ) ),
                        r.lower + 1, r.upper, g )
         IN  prefixSumLocal(
                 [ mem |-> mem,
                   local_prefix_sum |->
                       [ st.local_prefix_sum EXCEPT
                           ![id] = Rd( mem, pref_sum + r.upper - 1, g ) ] ],
                 id + 1, num_tiles, prefix_sum_tile_size,
                 prefix_sum_num_tiles, g )

prefixSumSingleNoRunningSum(local_prefix_sum) == local_prefix_sum

\* The single region: the running sum of the chunk totals.
prefixSumSingle(local_prefix_sum) ==
    LET sum[i \in DOMAIN local_prefix_sum] ==
            IF i = 0
            THEN local_prefix_sum[0]
            ELSE local_prefix_sum[i] + sum[i - 1]
    IN  sum

\* The second loop: every chunk adds _n and the totals of the chunks before
\* it to its slots.
prefixSumAddOffsets(mem, local_prefix_sum, num_tiles, prefix_sum_tile_size, prefix_sum_num_tiles, g) ==
    [ a \in DOMAIN mem |->
        IF a - pref_sum \in 0 .. num_tiles - 1
        THEN LET id == CHOOSE c \in 0 .. prefix_sum_num_tiles - 1 :
                         LET r == localRange( 0, num_tiles,
                                      prefix_sum_tile_size, c,
                                      prefix_sum_num_tiles )
                         IN  r.lower <= a - pref_sum /\ a - pref_sum < r.upper
                 acc == _n + ( IF id > 0 THEN local_prefix_sum[id - 1] ELSE 0 )
             IN  Rd( mem, a, g ) + acc
        ELSE mem[a] ]

\* prefixSumComputation, parallel branch.
prefixSumParallel(mem, num_tiles, prefix_sum_tile_size, prefix_sum_num_tiles, g) ==
    LET first == prefixSumLocal(
                     [ mem |-> mem,
                       local_prefix_sum |->
                           [ id \in 0 .. prefix_sum_num_tiles - 1 |-> g ] ],
                     0, num_tiles, prefix_sum_tile_size,
                     prefix_sum_num_tiles, g )
    IN  prefixSumAddOffsets( first.mem,
                             prefixSumSingle( first.local_prefix_sum ),
                             num_tiles, prefix_sum_tile_size,
                             prefix_sum_num_tiles, g )

\* prefixSumComputation(): the scratch buffer it leaves, for the tile size
\* its own analytic model picked.
prefixSumComputation(prefix_sum_tile_size, g) ==
    LET num_tiles == analytic_model.num_tiles
        am == AnalyticModel( prefix_sum_tile_size, num_tiles )
    IN  IF num_tiles < prefix_sum_tile_size
        THEN prefixSumSequential( _buffer, num_tiles, g )
        ELSE prefixSumParallel( _buffer, num_tiles, prefix_sum_tile_size,
                                am.num_tiles, g )

joinSubsetNoOffset(lower_bound, upper_bound, g) ==
    LET tile_id == TileId( lower_bound )
        local_stack == local_buffer[tile_id] + 1
        new_nnzs == Rd( _buffer, local_new_nnzs + tile_id, g )
        local_stack_start == Rd( _buffer, local_buffer[tile_id], g )
        pos == Rd( _buffer, pref_sum + tile_id, g ) - new_nnzs
    IN  [ stack |->
            [ k \in DOMAIN _stack |->
                IF k - pos \in 0 .. new_nnzs - 1
                THEN Rd( _buffer, local_stack + local_stack_start + k - pos, g )
                ELSE _stack[k] ],
          buffer |-> Wr( _buffer, local_new_nnzs + tile_id, 0 ),
          fault |-> \/ new_nnzs < 0
                    \/ new_nnzs > 0 /\ ( pos < 0 \/ pos + new_nnzs > _cap ) ]

joinSubsetReversed(lower_bound, upper_bound, g) ==
    LET tile_id == TileId( lower_bound )
        local_stack == local_buffer[tile_id] + 1
        new_nnzs == Rd( _buffer, local_new_nnzs + tile_id, g )
        local_stack_start == Rd( _buffer, local_buffer[tile_id], g )
        pos == Rd( _buffer, pref_sum + tile_id, g ) - new_nnzs
    IN  [ stack |->
            [ k \in DOMAIN _stack |->
                IF k - pos \in 0 .. new_nnzs - 1
                THEN Rd( _buffer, local_stack + local_stack_start
                                  + new_nnzs - 1 - ( k - pos ), g )
                     + lower_bound
                ELSE _stack[k] ],
          buffer |-> Wr( _buffer, local_new_nnzs + tile_id, 0 ),
          fault |-> \/ new_nnzs < 0
                    \/ new_nnzs > 0 /\ ( pos < 0 \/ pos + new_nnzs > _cap ) ]

joinSubsetKeepsCounter(lower_bound, upper_bound, g) ==
    LET tile_id == TileId( lower_bound )
        local_stack == local_buffer[tile_id] + 1
        new_nnzs == Rd( _buffer, local_new_nnzs + tile_id, g )
        local_stack_start == Rd( _buffer, local_buffer[tile_id], g )
        pos == Rd( _buffer, pref_sum + tile_id, g ) - new_nnzs
    IN  [ stack |->
            [ k \in DOMAIN _stack |->
                IF k - pos \in 0 .. new_nnzs - 1
                THEN Rd( _buffer, local_stack + local_stack_start + k - pos, g )
                     + lower_bound
                ELSE _stack[k] ],
          buffer |-> _buffer,
          fault |-> \/ new_nnzs < 0
                    \/ new_nnzs > 0 /\ ( pos < 0 \/ pos + new_nnzs > _cap ) ]

\* joinSubset that copies from the start of the local stack.
joinSubsetFromLocalStart(lower_bound, upper_bound, g) ==
    LET tile_id == TileId( lower_bound )
        local_stack == local_buffer[tile_id] + 1
        new_nnzs == Rd( _buffer, local_new_nnzs + tile_id, g )
        pos == Rd( _buffer, pref_sum + tile_id, g ) - new_nnzs
    IN  IF _cap = 0
        THEN [ stack |-> _stack, buffer |-> _buffer, fault |-> FALSE ]
        ELSE
        [ stack |->
            [ k \in DOMAIN _stack |->
                IF k - pos \in 0 .. new_nnzs - 1
                THEN Rd( _buffer, local_stack + k - pos, g ) + lower_bound
                ELSE _stack[k] ],
          buffer |-> Wr( _buffer, local_new_nnzs + tile_id, 0 ),
          fault |-> \/ new_nnzs < 0
                    \/ new_nnzs > 0 /\ ( pos < 0 \/ pos + new_nnzs > _cap ) ]

\* joinSubset( lower_bound, upper_bound ): the stack and the buffer it
\* leaves, and whether it wrote outside the stack.
joinSubset(lower_bound, upper_bound, g) ==
    LET tile_id == TileId( lower_bound )
        local_stack == local_buffer[tile_id] + 1
        new_nnzs == Rd( _buffer, local_new_nnzs + tile_id, g )
        local_stack_start == Rd( _buffer, local_buffer[tile_id], g )
        pos == Rd( _buffer, pref_sum + tile_id, g ) - new_nnzs
    IN  IF _cap = 0
        THEN [ stack |-> _stack, buffer |-> _buffer, fault |-> FALSE ]
        ELSE
        [ stack |->
            [ k \in DOMAIN _stack |->
                IF k - pos \in 0 .. new_nnzs - 1
                THEN Rd( _buffer, local_stack + local_stack_start + k - pos, g )
                     + lower_bound
                ELSE _stack[k] ],
          buffer |-> Wr( _buffer, local_new_nnzs + tile_id, 0 ),
          fault |-> \/ new_nnzs < 0
                    \/ new_nnzs > 0 /\ ( pos < 0 \/ pos + new_nnzs > _cap ) ]

----------------------------------------------------------------------------
\* The calls of an episode. Range w of tiles is worked on by one worker,
\* whose pc[w] runs "start" -> "inited" -> "active" -> "committed" (and back
\* to "active" when the view is retrieved again) -> "joined".

\* What the reads of the slots addrs may yield where they are uninitialised.
Uninit(addrs) ==
    IF \E a \in addrs : a \notin DOMAIN _buffer \/ _buffer[a] = Undef
    THEN Garbage
    ELSE { 0 }

Counters == { local_new_nnzs + t : t \in 0 .. analytic_model.num_tiles - 1 }

TileSizes == 1 .. _cap

\* The tile sizes that give two tiles at most.
LargeTileSizes == { tile_size \in TileSizes : 2 * tile_size >= _cap }

\* A worker outside assign, and one that has touched no shared slot yet.
NotInAssign == [ line |-> "none", j |-> 0 ]

NoAccess == [ rd |-> {}, wr |-> {} ]

LocalCoordinatesInit(tile_size, ranges) ==
    /\ phase = "Idle"
    /\ localCoordinatesInit( AnalyticModel( tile_size, _cap ) )
    /\ tiles' = ranges
    /\ pc' = [ w \in DOMAIN ranges |-> "start" ]
    /\ view' = [ w \in DOMAIN ranges |-> NoView ]
    /\ phase' = "Episode"
    /\ episode' = episode + 1
    /\ op' = Call( "localCoordinatesInit", 0, 0 )
    /\ ret' = FALSE
    /\ g_pre' = This
    /\ g_ins' = {}
    /\ g_since' = {}
    /\ g_cleared' = "none"
    /\ g_prev' = Call( "none", 0, 0 )
    /\ at' = [ w \in DOMAIN ranges |-> NotInAssign ]
    /\ touched' = [ w \in DOMAIN ranges |-> NoAccess ]
    /\ g_calls' = {}
    /\ UNCHANGED << coord, scratch, g_chunks, g_early, g_skipped, fault, objs,
                    loop >>

AsyncSubsetInit(w) ==
    /\ phase = "Episode"
    /\ pc[w] = "start"
    /\ _buffer' = asyncSubsetInit( tiles[w].lower, tiles[w].upper )
    /\ pc' = [ pc EXCEPT ![w] = "inited" ]
    /\ UNCHANGED << coord, _buf, bindings, tiles, view, phase, episode, loop, objs, micro,
                    g_pre, g_ins, history, order, fault >>

AsyncSubset(w) ==
    /\ phase = "Episode"
    /\ pc[w] \in { "inited", "committed" }
    /\ \E g \in Uninit( { local_buffer[TileId( tiles[w].lower )],
                          local_new_nnzs + TileId( tiles[w].lower ) } ) :
          view' = [ view EXCEPT
                      ![w] = asyncSubset( tiles[w].lower, tiles[w].upper, g ) ]
    /\ pc' = [ pc EXCEPT ![w] = "active" ]
    /\ UNCHANGED << coord, scratch, bindings, tiles, phase, episode, loop, objs, micro, g_pre,
                    g_ins, history, order, fault >>

ViewAssignOnGlobalStack(w, j) ==
    /\ phase = "Episode"
    /\ pc[w] = "active"
    /\ LET v == view[w]
           r == assign( Deref( v ), j )
       IN  /\ _assigned' = [ i \in DOMAIN _assigned |->
                               IF i >= v.assigned
                               THEN r.c.assigned[i - v.assigned]
                               ELSE _assigned[i] ]
           /\ _stack' = IF r.ret THEN _stack ELSE Wr( _stack, v.assigned + v.n, j )
           /\ view' = [ view EXCEPT ![w].n = r.c.n ]
           /\ g_ins' = g_ins \cup { v.assigned + j }
    /\ UNCHANGED << _cap, _n, scratch, bindings, tiles, pc, phase, episode, loop, objs, micro,
                    g_pre, history, order, fault >>

\* assign( j ) on the view of range w.
ViewAssign(w, j) ==
    /\ phase = "Episode"
    /\ pc[w] = "active"
    /\ LET v == view[w]
           r == assign( Deref( v ), j )
       IN  /\ _assigned' = [ i \in DOMAIN _assigned |->
                               IF i >= v.assigned
                               THEN r.c.assigned[i - v.assigned]
                               ELSE _assigned[i] ]
           /\ _buffer' = [ a \in DOMAIN _buffer |->
                             IF a >= v.stack
                             THEN r.c.stack[a - v.stack]
                             ELSE _buffer[a] ]
           /\ view' = [ view EXCEPT ![w].n = r.c.n ]
           /\ g_ins' = g_ins \cup { v.assigned + j }
    /\ UNCHANGED << _cap, _n, _stack, _buf, bindings, tiles, pc, phase,
                    episode, loop, objs, micro, g_pre, history, order, fault >>

\* A bulk call on the view of range w whose result is r: the view's
\* presence slots, its local stack and the slot before it take r's values.
\* op.i tells a call from the same call made just before it.
BulkOnView(w, name, r) ==
    LET v == view[w]
    IN  /\ _assigned' = [ i \in DOMAIN _assigned |->
                            IF i >= v.assigned
                            THEN r.c.assigned[i - v.assigned]
                            ELSE _assigned[i] ]
        /\ _buffer' = [ a \in DOMAIN _buffer |->
                          IF a >= v.stack
                          THEN r.c.stack[a - v.stack]
                          ELSE IF a = v.stack - 1 /\ r.local_nnzs # << >>
                               THEN r.local_nnzs[Len( r.local_nnzs )]
                               ELSE _buffer[a] ]
        /\ view' = [ view EXCEPT ![w].n = r.c.n ]
        /\ fault' = ( fault \/ r.fault )
        /\ g_ins' = g_ins \cup { v.assigned + j : j \in 0 .. v.cap - 1 }
        /\ op' = Call( name, w, IF op = Call( name, w, 0 ) THEN 1 ELSE 0 )
        /\ g_calls' = g_calls \cup { << name, w >> }
        /\ UNCHANGED << _cap, _n, _stack, _buf, bindings, tiles, pc, phase,
                        episode, loop, objs, micro, g_pre, ret, g_since, g_cleared,
                        g_prev, g_chunks, g_early, g_skipped >>

\* local_assignAll() on the view of range w.
LocalAssignAll(w, maybe_invalid) ==
    /\ phase = "Episode"
    /\ pc[w] = "active"
    /\ BulkOnView( w, "local_assignAll",
                   local_assignAll( Deref( view[w] ), maybe_invalid ) )

\* local_assignAllNotAlreadyAssigned() on the view of range w.
LocalAssignAllNotAlreadyAssigned(w, maybe_invalid) ==
    /\ phase = "Episode"
    /\ pc[w] = "active"
    /\ BulkOnView( w, "local_assignAllNotAlreadyAssigned",
                   local_assignAllNotAlreadyAssigned( Deref( view[w] ),
                                                      maybe_invalid ) )

AsyncJoinSubset(w) ==
    /\ phase = "Episode"
    /\ pc[w] = "active"
    /\ \E g \in Uninit( { local_buffer[TileId( tiles[w].lower )] } ) :
          _buffer' = asyncJoinSubset( view[w], tiles[w].lower, g )
    /\ pc' = [ pc EXCEPT ![w] = "committed" ]
    /\ view' = [ view EXCEPT ![w] = NoView ]
    /\ UNCHANGED << coord, _buf, bindings, tiles, phase, episode, loop, objs, micro, g_pre,
                    g_ins, history, order, fault >>

\* prefixSumComputation that stores the model it builds in analytic_model.
PrefixSumComputationRebindsModel(prefix_sum_tile_size) ==
    /\ phase = "Episode"
    /\ \A w \in DOMAIN tiles : pc[w] \in { "committed", "joined" }
    /\ \E g \in Uninit( Counters ) :
          LET mem == prefixSumComputation( prefix_sum_tile_size, g )
          IN  /\ _buffer' = mem
              /\ _n' = Rd( mem, pref_sum + analytic_model.num_tiles - 1, g )
    /\ phase' = IF \A w \in DOMAIN tiles : pc[w] = "joined"
                THEN "Idle"
                ELSE "Reconciled"
    /\ g_chunks' = IF analytic_model.num_tiles < prefix_sum_tile_size
                   THEN 0
                   ELSE AnalyticModel( prefix_sum_tile_size,
                                       analytic_model.num_tiles ).num_tiles
    /\ analytic_model' = AnalyticModel( prefix_sum_tile_size,
                                        analytic_model.num_tiles )
    /\ UNCHANGED << _cap, _assigned, _stack, _buf, local_buffer,
                    local_new_nnzs, pref_sum, workers,
                    episode, loop, objs, micro, g_pre, g_ins, history, g_early,
                    g_skipped, g_calls, fault >>

PrefixSumComputation(prefix_sum_tile_size) ==
    /\ phase = "Episode"
    /\ \A w \in DOMAIN tiles : pc[w] \in { "committed", "joined" }
    /\ \E g \in Uninit( Counters ) :
          LET mem == prefixSumComputation( prefix_sum_tile_size, g )
          IN  /\ _buffer' = mem
              /\ _n' = Rd( mem, pref_sum + analytic_model.num_tiles - 1, g )
    /\ phase' = IF \A w \in DOMAIN tiles : pc[w] = "joined"
                THEN "Idle"
                ELSE "Reconciled"
    /\ g_chunks' = IF analytic_model.num_tiles < prefix_sum_tile_size
                   THEN 0
                   ELSE AnalyticModel( prefix_sum_tile_size,
                                       analytic_model.num_tiles ).num_tiles
    /\ UNCHANGED << _cap, _assigned, _stack, _buf, bindings, workers,
                    episode, loop, objs, micro, g_pre, g_ins, history, g_early,
                    g_skipped, g_calls, fault >>

JoinSubsetAddsCount(w) ==
    /\ phase = "Reconciled"
    /\ pc[w] = "committed"
    /\ \E g \in Uninit( { local_buffer[TileId( tiles[w].lower )],
                          local_new_nnzs + TileId( tiles[w].lower ),
                          pref_sum + TileId( tiles[w].lower ) } ) :
          LET r == joinSubset( tiles[w].lower, tiles[w].upper, g )
          IN  /\ _stack' = r.stack
              /\ _buffer' = r.buffer
              /\ fault' = ( fault \/ r.fault )
              /\ _n' = _n + Rd( _buffer,
                                local_new_nnzs + TileId( tiles[w].lower ), g )
    /\ pc' = [ pc EXCEPT ![w] = "joined" ]
    /\ phase' = IF \A x \in DOMAIN tiles \ { w } : pc[x] = "joined"
                THEN "Idle"
                ELSE "Reconciled"
    /\ UNCHANGED << _cap, _assigned, _buf, bindings, tiles, view,
                    episode, loop, objs, micro, g_pre, g_ins, history, order >>

\* joinSubset for range w, after prefixSumComputation.
JoinSubset(w) ==
    /\ phase = "Reconciled"
    /\ pc[w] = "committed"
    /\ \E g \in Uninit( { local_buffer[TileId( tiles[w].lower )],
                          local_new_nnzs + TileId( tiles[w].lower ),
                          pref_sum + TileId( tiles[w].lower ) } ) :
          LET r == joinSubset( tiles[w].lower, tiles[w].upper, g )
          IN  /\ _stack' = r.stack
              /\ _buffer' = r.buffer
              /\ fault' = ( fault \/ r.fault )
    /\ pc' = [ pc EXCEPT ![w] = "joined" ]
    /\ phase' = IF \A x \in DOMAIN tiles \ { w } : pc[x] = "joined"
                THEN "Idle"
                ELSE "Reconciled"
    /\ UNCHANGED << _cap, _n, _assigned, _buf, bindings, tiles, view,
                    episode, loop, objs, micro, g_pre, g_ins, history, order >>

\* joinSubset for range w called before prefixSumComputation has run.
JoinSubsetEarly(w) ==
    /\ phase = "Episode"
    /\ pc[w] = "committed"
    /\ \E g \in Uninit( { local_buffer[TileId( tiles[w].lower )],
                          local_new_nnzs + TileId( tiles[w].lower ),
                          pref_sum + TileId( tiles[w].lower ) } ) :
          LET r == joinSubset( tiles[w].lower, tiles[w].upper, g )
          IN  /\ _stack' = r.stack
              /\ _buffer' = r.buffer
              /\ fault' = ( fault \/ r.fault )
    /\ pc' = [ pc EXCEPT ![w] = "joined" ]
    /\ g_early' = ( g_early
                    \/ _buffer[local_new_nnzs + TileId( tiles[w].lower )] > 0 )
    /\ UNCHANGED << _cap, _n, _assigned, _buf, bindings, tiles, view, phase,
                    episode, loop, objs, micro, g_pre, g_ins, history, g_chunks,
                    g_skipped, g_calls >>

\* newNonZeroes(), called while an episode runs or after it.
NewNonZeroes ==
    /\ episode > 0
    /\ \E g \in Uninit( Counters ) : ret' = newNonZeroes( g )
    /\ op' = Call( "newNonZeroes", 0, 0 )
    /\ UNCHANGED << coord, scratch, bindings, workers, phase, episode, loop, objs, micro,
                    g_pre, g_ins, g_since, g_cleared, g_prev, order, fault >>

----------------------------------------------------------------------------
\* One episode of the tile protocol, over the tiles of the analytic model
\* and in the order of the protocol, on a structure that sequential assign
\* calls have filled in any way before.
Init == objs = << >> /\ \E dim \in 1 .. MaxCap : Bound( dim )

NoEpisodeYet == episode = 0

Next ==
    \/ NoEpisodeYet /\ \E i \in 0 .. _cap - 1 : Assign( i )
    \/ NoEpisodeYet /\ \E tile_size \in TileSizes :
          LocalCoordinatesInit( tile_size,
              UniformTiles( AnalyticModel( tile_size, _cap ), _cap ) )
    \/ \E w \in DOMAIN tiles : AsyncSubsetInit( w )
    \/ \E w \in DOMAIN tiles : AsyncSubset( w )
    \/ \E w \in DOMAIN tiles : \E j \in 0 .. view[w].cap - 1 : ViewAssign( w, j )
    \/ \E w \in DOMAIN tiles : AsyncJoinSubset( w )
    \/ NewNonZeroes
    \/ \E prefix_sum_tile_size \in 1 .. MaxPrefixTile :
          PrefixSumComputation( prefix_sum_tile_size )
    \/ \E w \in DOMAIN tiles : JoinSubset( w )

Spec == Init /\ [][Next]_vars

----------------------------------------------------------------------------
\* The same episode when the engine hands out any partition of [0, _cap)
\* into as many contiguous ranges as the analytic model has tiles, none
\* wider than the tile size.

\* The k-th smallest element of the set S of numbers.
Nth(S, k) == CHOOSE x \in S : Cardinality( { y \in S : y < x } ) = k - 1

\* The ranges that the cut points S divide [0, dim) into.
RangesOf(S, dim) ==
    [ w \in 1 .. Cardinality( S ) + 1 |->
        [ lower |-> Nth( S \cup { 0 }, w ), upper |-> Nth( S \cup { dim }, w ) ] ]

Partitions(dim, tile_size) ==
    { r \in { RangesOf( S, dim ) : S \in SUBSET ( 1 .. dim - 1 ) } :
        /\ Len( r ) = AnalyticModel( tile_size, dim ).num_tiles
        /\ \A w \in DOMAIN r : r[w].upper - r[w].lower <= tile_size }

NextAnyPartition ==
    \/ NoEpisodeYet /\ \E i \in 0 .. _cap - 1 : Assign( i )
    \/ NoEpisodeYet /\ \E tile_size \in TileSizes :
          \E ranges \in Partitions( _cap, tile_size ) :
             LocalCoordinatesInit( tile_size, ranges )
    \/ \E w \in DOMAIN tiles : AsyncSubsetInit( w )
    \/ \E w \in DOMAIN tiles : AsyncSubset( w )
    \/ \E w \in DOMAIN tiles : \E j \in 0 .. view[w].cap - 1 : ViewAssign( w, j )
    \/ \E w \in DOMAIN tiles : AsyncJoinSubset( w )
    \/ \E prefix_sum_tile_size \in 1 .. MaxPrefixTile :
          PrefixSumComputation( prefix_sum_tile_size )
    \/ \E w \in DOMAIN tiles : JoinSubset( w )

SpecAnyPartition == Init /\ [][NextAnyPartition]_vars

----------------------------------------------------------------------------
\* The same episode when joinSubset may also be called for a committed
\* tile before prefixSumComputation has run.
NextJoinFirst ==
    \/ NoEpisodeYet /\ \E i \in 0 .. _cap - 1 : Assign( i )
    \/ NoEpisodeYet /\ \E tile_size \in TileSizes :
          LocalCoordinatesInit( tile_size,
              UniformTiles( AnalyticModel( tile_size, _cap ), _cap ) )
    \/ \E w \in DOMAIN tiles : AsyncSubsetInit( w )
    \/ \E w \in DOMAIN tiles : AsyncSubset( w )
    \/ \E w \in DOMAIN tiles : \E j \in 0 .. view[w].cap - 1 : ViewAssign( w, j )
    \/ \E w \in DOMAIN tiles : AsyncJoinSubset( w )
    \/ \E w \in DOMAIN tiles : JoinSubsetEarly( w )
    \/ \E prefix_sum_tile_size \in 1 .. MaxPrefixTile :
          PrefixSumComputation( prefix_sum_tile_size )
    \/ \E w \in DOMAIN tiles : JoinSubset( w )

SpecJoinFirst == Init /\ [][NextJoinFirst]_vars

----------------------------------------------------------------------------
\* The Local Active phase with assign on a view taken line by line, so
\* that the workers of different ranges interleave inside their calls,
\* and with every access to shared memory recorded for the range whose
\* worker makes it. The fields of a view (_n, _cap and its two pointers)
\* are the worker's own; _assigned and _buffer are shared.

Presence(i) == << "_assigned", i >>

Scratch(a) == << "_buffer", a >>

Log(w, rd, wr) ==
    touched' = [ touched EXCEPT ![w] = [ rd |-> @.rd \cup rd,
                                         wr |-> @.wr \cup wr ] ]

\* asyncSubset for range w: reads the tile's local count and its counter.
AsyncSubsetTraced(w) ==
    /\ phase = "Episode"
    /\ pc[w] \in { "inited", "committed" }
    /\ \E g \in Uninit( { local_buffer[TileId( tiles[w].lower )],
                          local_new_nnzs + TileId( tiles[w].lower ) } ) :
          view' = [ view EXCEPT
                      ![w] = asyncSubset( tiles[w].lower, tiles[w].upper, g ) ]
    /\ pc' = [ pc EXCEPT ![w] = "active" ]
    /\ Log( w, { Scratch( local_buffer[TileId( tiles[w].lower )] ),
                 Scratch( local_new_nnzs + TileId( tiles[w].lower ) ) }, {} )
    /\ UNCHANGED << coord, scratch, bindings, tiles, phase, episode, loop, objs, at,
                    g_pre, g_ins, history, order, fault >>

\* assign( j ) on the view of range w: if( _n == _cap ) return true;
\* if( !_assigned[ j ] ) ... else return true;
AssignEnter(w, j) ==
    /\ phase = "Episode"
    /\ pc[w] = "active"
    /\ at[w].line = "none"
    /\ IF view[w].n = view[w].cap
       THEN UNCHANGED << at, touched >>
       ELSE /\ Log( w, { Presence( view[w].assigned + j ) }, {} )
            /\ at' = IF _assigned[view[w].assigned + j]
                     THEN at
                     ELSE [ at EXCEPT ![w] = [ line |-> "mark", j |-> j ] ]
    /\ g_ins' = g_ins \cup { view[w].assigned + j }
    /\ UNCHANGED << coord, scratch, bindings, workers, phase, episode, loop, objs,
                    g_pre, history, order, fault >>

\* _assigned[ j ] = true;
AssignMark(w) ==
    /\ at[w].line = "mark"
    /\ _assigned' = [ _assigned EXCEPT ![view[w].assigned + at[w].j] = TRUE ]
    /\ Log( w, {}, { Presence( view[w].assigned + at[w].j ) } )
    /\ at' = [ at EXCEPT ![w].line = "push" ]
    /\ UNCHANGED << _cap, _n, _stack, scratch, bindings, workers, phase,
                    episode, loop, objs, g_pre, g_ins, history, order, fault >>

\* _stack[ _n ] = j; _n = newSize; return false;
AssignPush(w) ==
    /\ at[w].line = "push"
    /\ _buffer' = Wr( _buffer, view[w].stack + view[w].n, at[w].j )
    /\ view' = [ view EXCEPT ![w].n = @ + 1 ]
    /\ Log( w, {}, { Scratch( view[w].stack + view[w].n ) } )
    /\ at' = [ at EXCEPT ![w] = NotInAssign ]
    /\ UNCHANGED << coord, _buf, bindings, tiles, pc, phase, episode, loop, objs,
                    g_pre, g_ins, history, order, fault >>

\* asyncJoinSubset for range w: reads the tile's local count, writes its
\* counter.
AsyncJoinSubsetTraced(w) ==
    /\ phase = "Episode"
    /\ pc[w] = "active"
    /\ at[w].line = "none"
    /\ \E g \in Uninit( { local_buffer[TileId( tiles[w].lower )] } ) :
          _buffer' = asyncJoinSubset( view[w], tiles[w].lower, g )
    /\ pc' = [ pc EXCEPT ![w] = "committed" ]
    /\ view' = [ view EXCEPT ![w] = NoView ]
    /\ Log( w, { Scratch( local_buffer[TileId( tiles[w].lower )] ) },
               { Scratch( local_new_nnzs + TileId( tiles[w].lower ) ) } )
    /\ UNCHANGED << coord, _buf, bindings, tiles, phase, episode, loop, objs, at,
                    g_pre, g_ins, history, order, fault >>

NextLocalActive ==
    \/ NoEpisodeYet /\ \E i \in 0 .. _cap - 1 : Assign( i )
    \/ NoEpisodeYet /\ \E tile_size \in TileSizes :
          LocalCoordinatesInit( tile_size,
              UniformTiles( AnalyticModel( tile_size, _cap ), _cap ) )
    \/ \E w \in DOMAIN tiles : AsyncSubsetInit( w )
    \/ \E w \in DOMAIN tiles : AsyncSubsetTraced( w )
    \/ \E w \in DOMAIN tiles : \E j \in 0 .. view[w].cap - 1 : AssignEnter( w, j )
    \/ \E w \in DOMAIN tiles : AssignMark( w )
    \/ \E w \in DOMAIN tiles : AssignPush( w )
    \/ \E w \in DOMAIN tiles : AsyncJoinSubsetTraced( w )

SpecLocalActive == Init /\ [][NextLocalActive]_vars

----------------------------------------------------------------------------
\* The phases called, in any order and any number of times, on a structure
\* of capacity 0 whose analytic model has no tiles. fault records a failed
\* assertion, a division by zero or an access outside the bound arrays.

\* The tile sizes a model without tiles may report.
EmptyTileSizes == 0 .. 1

\* What a read outside the bound arrays may yield.
Stray == 0 .. 1

\* set() with dimension 0, then localCoordinatesInit with such a model
\* (built without assertions: with them its assert( num_tiles > 0 ) fails).
InitOnEmpty ==
    /\ set( 0 )
    /\ objs = << >>
    /\ \E tile_size \in EmptyTileSizes :
          /\ analytic_model = AnalyticModel( tile_size, 0 )
          /\ local_new_nnzs = 0 * ( tile_size + 1 )
          /\ pref_sum = 0 * ( tile_size + 2 )
    /\ local_buffer = << >>
    /\ tiles = << >>
    /\ pc = << >>
    /\ view = << >>
    /\ phase = "Idle"
    /\ episode = 0
    /\ op = Call( "localCoordinatesInit", 0, 0 )
    /\ ret = FALSE
    /\ g_pre = NoCoord
    /\ g_ins = {}
    /\ g_since = {}
    /\ g_cleared = "none"
    /\ g_prev = Call( "set", 0, 0 )
    /\ g_chunks = 0
    /\ g_early = FALSE
    /\ g_skipped = {}
    /\ g_calls = {}
    /\ fault = FALSE
    /\ at = << >>
    /\ touched = << >>
    /\ loop = NoLoop

Called(name) ==
    /\ op' = Call( name, 0, 0 )
    /\ g_prev' = op
    /\ UNCHANGED << _cap, _assigned, _buf, bindings, workers, phase,
                    episode, loop, objs, micro, g_pre, g_ins, g_since, g_cleared,
                    g_early, g_skipped, g_calls >>

\* if( _cap == 0 ) { return; }
AsyncSubsetInitOnEmpty ==
    /\ _cap = 0
    /\ _buffer' = asyncSubsetInit( 0, 0 )
    /\ Called( "asyncSubsetInit" )
    /\ UNCHANGED << _n, _stack, ret, g_chunks, fault >>

\* assert( _cap > 0 ); without assertions tile_id = lower_bound /
\* getTileSize() and local_buffer[ tile_id ] of an empty vector follow.
AsyncSubsetOnEmpty ==
    /\ _cap = 0
    /\ fault' = TRUE
    /\ Called( "asyncSubset" )
    /\ UNCHANGED << _n, _stack, _buffer, ret, g_chunks >>

\* assert( _cap > 0 ); as for asyncSubset.
AsyncJoinSubsetOnEmpty ==
    /\ _cap = 0
    /\ fault' = TRUE
    /\ Called( "asyncJoinSubset" )
    /\ UNCHANGED << _n, _stack, _buffer, ret, g_chunks >>

\* if( _cap == 0 ) { return false; }
NewNonZeroesOnEmpty ==
    /\ _cap = 0
    /\ ret' = newNonZeroes( 0 )
    /\ Called( "newNonZeroes" )
    /\ UNCHANGED << _n, _stack, _buffer, g_chunks, fault >>

\* prefixSumComputation has no test of _cap: with num_tiles = 0 its
\* sequential branch writes pref_sum[ 0 ], and both branches end with
\* _n = pref_sum[ num_tiles - 1 ].
PrefixSumComputationOnEmpty(prefix_sum_tile_size) ==
    /\ _cap = 0
    /\ \E g \in Stray :
          LET mem == prefixSumComputation( prefix_sum_tile_size, g )
          IN  /\ _buffer' = mem
              /\ _n' = Rd( mem, pref_sum + analytic_model.num_tiles - 1, g )
    /\ fault' = ( fault
                  \/ pref_sum + analytic_model.num_tiles - 1
                        \notin DOMAIN _buffer )
    /\ g_chunks' = IF analytic_model.num_tiles < prefix_sum_tile_size
                   THEN 0
                   ELSE AnalyticModel( prefix_sum_tile_size,
                                       analytic_model.num_tiles ).num_tiles
    /\ Called( "prefixSumComputation" )
    /\ UNCHANGED << _stack, ret >>

\* if( _cap == 0 ) { return; }
JoinSubsetOnEmpty ==
    /\ _cap = 0
    /\ LET r == joinSubset( 0, 0, 0 )
       IN  /\ _stack' = r.stack
           /\ _buffer' = r.buffer
           /\ fault' = ( fault \/ r.fault )
    /\ Called( "joinSubset" )
    /\ UNCHANGED << _n, ret, g_chunks >>

NextOnEmpty ==
    \/ AsyncSubsetInitOnEmpty
    \/ AsyncSubsetOnEmpty
    \/ AsyncJoinSubsetOnEmpty
    \/ NewNonZeroesOnEmpty
    \/ \E prefix_sum_tile_size \in 0 .. MaxPrefixTile :
          PrefixSumComputationOnEmpty( prefix_sum_tile_size )
    \/ JoinSubsetOnEmpty

SpecOnEmpty == InitOnEmpty /\ [][NextOnEmpty]_vars

----------------------------------------------------------------------------
\* Two episodes in a row on a structure that starts empty, where the
\* engine may leave out the joinSubset of a tile that committed no new
\* nonzero. The prefix sum runs with one chunk size; what it computes does
\* not depend on it.

SkipJoinAnyTile(w) ==
    /\ phase = "Reconciled"
    /\ pc[w] = "committed"
    /\ pc' = [ pc EXCEPT ![w] = "joined" ]
    /\ phase' = IF \A x \in DOMAIN tiles \ { w } : pc[x] = "joined"
                THEN "Idle"
                ELSE "Reconciled"
    /\ g_skipped' = g_skipped \cup { episode }
    /\ UNCHANGED << coord, scratch, bindings, tiles, view, episode, loop, objs, micro,
                    g_pre, g_ins, history, g_chunks, g_early, g_calls,
                    fault >>

\* The range w, whose counter is 0, is done without a call of joinSubset.
SkipJoin(w) ==
    /\ phase = "Reconciled"
    /\ pc[w] = "committed"
    /\ _buffer[local_new_nnzs + TileId( tiles[w].lower )] = 0
    /\ pc' = [ pc EXCEPT ![w] = "joined" ]
    /\ phase' = IF \A x \in DOMAIN tiles \ { w } : pc[x] = "joined"
                THEN "Idle"
                ELSE "Reconciled"
    /\ g_skipped' = g_skipped \cup { episode }
    /\ UNCHANGED << coord, scratch, bindings, tiles, view, episode, loop, objs, micro,
                    g_pre, g_ins, history, g_chunks, g_early, g_calls,
                    fault >>

OneEpisodeAtMost == episode <= 1

NextSkipJoin ==
    \/ OneEpisodeAtMost /\ \E tile_size \in TileSizes :
          LocalCoordinatesInit( tile_size,
              UniformTiles( AnalyticModel( tile_size, _cap ), _cap ) )
    \/ \E w \in DOMAIN tiles : AsyncSubsetInit( w )
    \/ \E w \in DOMAIN tiles : AsyncSubset( w )
    \/ \E w \in DOMAIN tiles : \E j \in 0 .. view[w].cap - 1 : ViewAssign( w, j )
    \/ \E w \in DOMAIN tiles : AsyncJoinSubset( w )
    \/ PrefixSumComputation( MaxPrefixTile )
    \/ \E w \in DOMAIN tiles : JoinSubset( w )
    \/ \E w \in DOMAIN tiles : SkipJoin( w )

SpecSkipJoin == Init /\ [][NextSkipJoin]_vars

----------------------------------------------------------------------------
\* An episode that is given up after views have assigned new indices,
\* before every range is joined: clear() is called on the global
\* structure, and assign on it afterwards.

\* The stack slots below the count that were never written.
UnwrittenStack == { k \in 0 .. _n - 1 : _stack[k] = Undef }

Aborted == g_cleared = "aborted"

\* clear() in the middle of an episode. The entries it reads from stack
\* slots that no joinSubset has written yet are whatever the memory holds.
ClearAborted ==
    /\ phase \in { "Episode", "Reconciled" }
    /\ g_ins \ Present( g_pre ) # {}
    /\ \E g \in ( IF UnwrittenStack = {} THEN { 0 } ELSE Garbage ) :
          LET read == [ k \in DOMAIN _stack |-> Rd( _stack, k, g ) ]
              c == clear( [ This EXCEPT !.stack = read ] )
          IN  /\ _assigned' = c.assigned
              /\ _n' = c.n
              /\ fault' = ( fault \/ ( ~ isDense( This )
                                       /\ \E k \in 0 .. _n - 1 :
                                             read[k] \notin 0 .. _cap - 1 ) )
    /\ phase' = "Idle"
    /\ op' = Call( "clear", 0, 0 )
    /\ ret' = FALSE
    /\ g_prev' = op
    /\ g_since' = {}
    /\ g_cleared' = "aborted"
    /\ UNCHANGED << _cap, _stack, scratch, bindings, workers, episode, loop, objs,
                    micro, g_pre, g_ins, order >>

NextAbort ==
    \/ ( NoEpisodeYet \/ Aborted ) /\ \E i \in 0 .. _cap - 1 : Assign( i )
    \/ NoEpisodeYet /\ \E tile_size \in TileSizes :
          LocalCoordinatesInit( tile_size,
              UniformTiles( AnalyticModel( tile_size, _cap ), _cap ) )
    \/ \E w \in DOMAIN tiles : AsyncSubsetInit( w )
    \/ \E w \in DOMAIN tiles : AsyncSubset( w )
    \/ \E w \in DOMAIN tiles : \E j \in 0 .. view[w].cap - 1 : ViewAssign( w, j )
    \/ \E w \in DOMAIN tiles : AsyncJoinSubset( w )
    \/ \E prefix_sum_tile_size \in 1 .. MaxPrefixTile :
          PrefixSumComputation( prefix_sum_tile_size )
    \/ \E w \in DOMAIN tiles : JoinSubset( w )
    \/ ClearAborted

SpecAbort == Init /\ [][NextAbort]_vars

----------------------------------------------------------------------------
\* The episode with views that are also made dense in one call, by
\* local_assignAll or by local_assignAllNotAlreadyAssigned.
NextAssignAll ==
    \/ NoEpisodeYet /\ \E i \in 0 .. _cap - 1 : Assign( i )
    \/ NoEpisodeYet /\ \E tile_size \in LargeTileSizes :
          LocalCoordinatesInit( tile_size,
              UniformTiles( AnalyticModel( tile_size, _cap ), _cap ) )
    \/ \E w \in DOMAIN tiles : AsyncSubsetInit( w )
    \/ \E w \in DOMAIN tiles : AsyncSubset( w )
    \/ \E w \in DOMAIN tiles : \E j \in 0 .. view[w].cap - 1 : ViewAssign( w, j )
    \/ \E w \in DOMAIN tiles : \E maybe_invalid \in BOOLEAN :
          LocalAssignAll( w, maybe_invalid )
    \/ \E w \in DOMAIN tiles : \E maybe_invalid \in BOOLEAN :
          LocalAssignAllNotAlreadyAssigned( w, maybe_invalid )
    \/ \E w \in DOMAIN tiles : AsyncJoinSubset( w )

SpecAssignAll == Init /\ [][NextAssignAll]_vars

\* The whole episode with views made dense by
\* local_assignAllNotAlreadyAssigned.
NextNotAlreadyAssigned ==
    \/ NoEpisodeYet /\ \E i \in 0 .. _cap - 1 : Assign( i )
    \/ NoEpisodeYet /\ \E tile_size \in LargeTileSizes :
          LocalCoordinatesInit( tile_size,
              UniformTiles( AnalyticModel( tile_size, _cap ), _cap ) )
    \/ \E w \in DOMAIN tiles : AsyncSubsetInit( w )
    \/ \E w \in DOMAIN tiles : AsyncSubset( w )
    \/ \E w \in DOMAIN tiles : \E j \in 0 .. view[w].cap - 1 : ViewAssign( w, j )
    \/ \E w \in DOMAIN tiles : \E maybe_invalid \in BOOLEAN :
          LocalAssignAllNotAlreadyAssigned( w, maybe_invalid )
    \/ \E w \in DOMAIN tiles : AsyncJoinSubset( w )
    \/ PrefixSumComputation( MaxPrefixTile )
    \/ \E w \in DOMAIN tiles : JoinSubset( w )

SpecNotAlreadyAssigned == Init /\ [][NextNotAlreadyAssigned]_vars

----------------------------------------------------------------------------
\* Copying and moving Coordinates objects. An object is the record of its
\* six members; a pointer is a memory block and an offset into it, the
\* blocks being the arrays of the containers that own the memory.

Objects == { "x", "y" }

nullptr == << << "none", "none" >>, 0 >>

\* Coordinates(): all pointers null, all sizes 0. It is also what
\* set( nullptr, ., nullptr, 0 ) and a move leave behind.
DefaultConstructed ==
    [ assigned |-> nullptr, stack |-> nullptr, buffer |-> nullptr,
      n |-> 0, cap |-> 0, buf |-> 0 ]

\* The object o after set( arr, ., buf, dim ) on the arrays of its own
\* container and count assign calls for distinct indices.
SetOn(o, dim, count) ==
    IF dim = 0
    THEN DefaultConstructed
    ELSE [ assigned |-> << << o, "arr" >>, 0 >>,
           stack |-> << << o, "buf" >>, 0 >>,
           buffer |-> << << o, "buf" >>, dim >>,
           n |-> count,
           cap |-> dim,
           buf |-> vectorBufferSize( dim ) ]

\* Coordinates( const Coordinates & x ), constructing the object at this.
copyConstruct(os, this, x) ==
    [ obj |-> os[x], fault |-> this = x ]

\* operator=( Coordinates && x )
moveAssign(os, this, x) ==
    [ objs |-> [ [ os EXCEPT ![this] = os[x] ]
                   EXCEPT ![x] = DefaultConstructed ],
      fault |-> this = x ]

\* operator=( const Coordinates & other ) that moves from other itself.
copyAssignMovesFromOther(os, this, other) ==
    LET r == moveAssign( os, this, other )
    IN  [ objs |-> r.objs, fault |-> r.fault ]

\* operator=( const Coordinates & other ): Coordinates replace( other );
\* *this = std::move( replace ); replace is a local of the call.
copyAssign(os, this, other) ==
    LET replace == copyConstruct( os, "replace", other )
        with == [ o \in DOMAIN os \cup { "replace" } |->
                    IF o = "replace" THEN replace.obj ELSE os[o] ]
        r == moveAssign( with, this, "replace" )
    IN  [ objs |-> [ o \in DOMAIN os |-> r.objs[o] ],
          fault |-> replace.fault \/ r.fault ]

\* this = other
CopyAssign(this, other) ==
    /\ LET r == copyAssign( objs, this, other )
       IN  /\ objs' = r.objs
           /\ fault' = ( fault \/ r.fault )
    /\ op' = Call( "operator=", << this, other >>,
                   IF op = Call( "operator=", << this, other >>, 0 )
                   THEN 1 ELSE 0 )
    /\ UNCHANGED << coord, scratch, bindings, workers, phase, episode, loop,
                    micro, g_pre, g_ins, ret, g_since, g_cleared, g_prev,
                    order >>

\* this = std::move( x )
MoveAssign(this, x) ==
    /\ LET r == moveAssign( objs, this, x )
       IN  /\ objs' = r.objs
           /\ fault' = ( fault \/ r.fault )
    /\ op' = Call( "operator=&&", << this, x >>,
                   IF op = Call( "operator=&&", << this, x >>, 0 )
                   THEN 1 ELSE 0 )
    /\ UNCHANGED << coord, scratch, bindings, workers, phase, episode, loop,
                    micro, g_pre, g_ins, ret, g_since, g_cleared, g_prev,
                    order >>

InitCopy ==
    /\ Bound( 0 )
    /\ \E dim \in [ Objects -> 0 .. MaxCap ] :
          \E count \in [ Objects -> 0 .. MaxCap ] :
             /\ \A o \in Objects : count[o] <= dim[o]
             /\ objs = [ o \in Objects |-> SetOn( o, dim[o], count[o] ) ]

NextCopy ==
    \/ \E this \in Objects : \E other \in Objects : CopyAssign( this, other )
    \/ \E this \in Objects : \E x \in Objects : MoveAssign( this, x )

SpecCopy == InitCopy /\ [][NextCopy]_vars

----------------------------------------------------------------------------
\* clear() with the iterations of its loop handed out to the threads of a
\* team one by one, in any order, each thread running its iteration in two
\* steps: it takes k (and, on the sparse branch, reads _stack[ k ]), then
\* it stores false in the presence array. One thread taking every
\* iteration in order is the sequential loop of a count below minLoopSize.

Threads == 1 .. 2

\* clear() enters: the test _n == _cap picks the loop and its range.
ClearBegin ==
    /\ phase = "Idle"
    /\ loop.branch = "none"
    /\ loop' = [ branch |-> IF _n = _cap THEN "dense" ELSE "sparse",
                 todo |-> IF _n = _cap THEN 0 .. _cap - 1 ELSE 0 .. _n - 1,
                 before |-> This,
                 writes |-> << >> ]
    /\ at' = [ t \in Threads |-> NotInAssign ]
    /\ touched' = [ t \in Threads |-> NoAccess ]
    /\ phase' = "Clearing"
    /\ UNCHANGED << coord, scratch, bindings, workers, episode, objs,
                    g_pre, g_ins, history, order, fault >>

\* Thread t is handed iteration k and leaves it to the others too.
ClearTakeShared(t, k) ==
    /\ phase = "Clearing"
    /\ at[t].line = "none"
    /\ k \in loop.todo
    /\ at' = [ at EXCEPT ![t] = [ line |-> "store",
                                  j |-> IF loop.branch = "dense"
                                        THEN k ELSE _stack[k],
                                  k |-> k ] ]
    /\ IF loop.branch = "dense"
       THEN UNCHANGED touched
       ELSE Log( t, { << "_stack", k >> }, {} )
    /\ \E rest \in { loop.todo, loop.todo \ { k } } :
          loop' = [ loop EXCEPT !.todo = rest ]
    /\ UNCHANGED << coord, scratch, bindings, workers, phase, episode, objs,
                    g_pre, g_ins, history, order, fault >>

\* Thread t is handed iteration k.
ClearTake(t, k) ==
    /\ phase = "Clearing"
    /\ at[t].line = "none"
    /\ k \in loop.todo
    /\ at' = [ at EXCEPT ![t] = [ line |-> "store",
                                  j |-> IF loop.branch = "dense"
                                        THEN k ELSE _stack[k],
                                  k |-> k ] ]
    /\ IF loop.branch = "dense"
       THEN UNCHANGED touched
       ELSE Log( t, { << "_stack", k >> }, {} )
    /\ loop' = [ loop EXCEPT !.todo = @ \ { k } ]
    /\ UNCHANGED << coord, scratch, bindings, workers, phase, episode, objs,
                    g_pre, g_ins, history, order, fault >>

\* _assigned[ i ] = false, respectively _assigned[ _stack[ k ] ] = false
ClearStore(t) ==
    /\ phase = "Clearing"
    /\ at[t].line = "store"
    /\ IF at[t].j \in 0 .. _cap - 1
       THEN /\ _assigned' = [ _assigned EXCEPT ![at[t].j] = FALSE ]
            /\ UNCHANGED fault
       ELSE /\ fault' = TRUE
            /\ UNCHANGED _assigned
    /\ Log( t, {}, { Presence( at[t].j ) } )
    /\ loop' = [ loop EXCEPT
                   !.writes = Append( @, << at[t].k, at[t].j >> ) ]
    /\ at' = [ at EXCEPT ![t] = NotInAssign ]
    /\ UNCHANGED << _cap, _n, _stack, scratch, bindings, workers, phase,
                    episode, objs, g_pre, g_ins, history, order >>

\* The loop is over: _n = 0;
ClearEnd ==
    /\ phase = "Clearing"
    /\ loop.todo = {}
    /\ \A t \in Threads : at[t].line = "none"
    /\ _n' = 0
    /\ phase' = "Idle"
    /\ loop' = [ loop EXCEPT !.branch = "done" ]
    /\ op' = Call( "clear", 0, 0 )
    /\ ret' = FALSE
    /\ g_since' = {}
    /\ g_cleared' = loop.branch
    /\ g_prev' = op
    /\ UNCHANGED << _cap, _assigned, _stack, scratch, bindings, workers,
                    episode, objs, micro, g_pre, g_ins, order, fault >>

NoLoopYet == loop.branch = "none"

NextParallelClear ==
    \/ NoLoopYet /\ \E i \in 0 .. _cap - 1 : Assign( i )
    \/ ClearBegin
    \/ \E t \in Threads : \E k \in loop.todo : ClearTake( t, k )
    \/ \E t \in Threads : ClearStore( t )
    \/ ClearEnd

SpecParallelClear == InitSeq /\ [][NextParallelClear]_vars

----------------------------------------------------------------------------
\* prefixSumComputation, parallel branch, with the chunks of its two loops
\* run one by one in any order, as the threads of the team may run them.
\* touched[id] collects what chunk id reads and writes; a location carries
\* the loop in which it is accessed, the barriers between the loops and
\* around the single region ordering all accesses of different loops.

\* The share of chunk id.
ChunkRange(id) ==
    localRange( 0, analytic_model.num_tiles, loop.tile_size, id,
                loop.num_tiles )

\* The decision for the parallel branch, and the declaration of
\* local_prefix_sum[ prefix_sum_num_tiles ].
PrefixBegin(prefix_sum_tile_size) ==
    /\ phase = "Episode"
    /\ loop.branch = "none"
    /\ \A w \in DOMAIN tiles : pc[w] = "committed"
    /\ ~ ( analytic_model.num_tiles < prefix_sum_tile_size )
    /\ LET am == AnalyticModel( prefix_sum_tile_size,
                                analytic_model.num_tiles )
       IN  /\ loop' = [ branch |-> "first",
                        todo |-> 0 .. am.num_tiles - 1,
                        before |-> This,
                        writes |-> << >>,
                        tile_size |-> prefix_sum_tile_size,
                        num_tiles |-> am.num_tiles,
                        local_prefix_sum |->
                            [ id \in 0 .. am.num_tiles - 1 |-> Undef ] ]
           /\ touched' = [ id \in 0 .. am.num_tiles - 1 |-> NoAccess ]
    /\ phase' = "Summing"
    /\ UNCHANGED << coord, scratch, bindings, workers, episode, objs, at,
                    g_pre, g_ins, history, order, fault >>

\* One iteration of the first omp for: the chunk sums its counters and
\* stores its total.
PrefixFirst(id) ==
    /\ phase = "Summing"
    /\ loop.branch = "first"
    /\ id \in loop.todo
    /\ LET r == ChunkRange( id )
       IN  \E g \in Uninit( Counters
                            \cup { pref_sum + r.upper - 1 } ) :
             LET mem == prefixLoop(
                            Wr( _buffer, pref_sum + r.lower,
                                Rd( _buffer, local_new_nnzs + r.lower, g ) ),
                            r.lower + 1, r.upper, g )
             IN  /\ _buffer' = mem
                 /\ loop' = [ loop EXCEPT
                                !.todo = @ \ { id },
                                !.local_prefix_sum[id] =
                                    Rd( mem, pref_sum + r.upper - 1, g ) ]
                 /\ Log( id,
                         { << "first", "local_new_nnzs", r.lower >>,
                           << "first", "pref_sum", r.upper - 1 >> }
                         \cup { << "first", "local_new_nnzs", i >> :
                                  i \in r.lower + 1 .. r.upper - 1 }
                         \cup { << "first", "pref_sum", i - 1 >> :
                                  i \in r.lower + 1 .. r.upper - 1 },
                         { << "first", "pref_sum", r.lower >>,
                           << "first", "local_prefix_sum", id >> }
                         \cup { << "first", "pref_sum", i >> :
                                  i \in r.lower + 1 .. r.upper - 1 } )
    /\ UNCHANGED << coord, _buf, bindings, workers, phase, episode, objs, at,
                    g_pre, g_ins, history, order, fault >>

\* After the barrier, the single region: the running sum of the totals.
PrefixSingle ==
    /\ phase = "Summing"
    /\ loop.branch = "first"
    /\ loop.todo = {}
    /\ loop' = [ loop EXCEPT
                   !.branch = "second",
                   !.todo = 0 .. loop.num_tiles - 1,
                   !.local_prefix_sum = prefixSumSingle( @ ) ]
    /\ UNCHANGED << coord, scratch, bindings, workers, phase, episode, objs,
                    micro, g_pre, g_ins, history, order, fault >>

\* One iteration of the second omp for: the chunk adds _n and the totals of
\* the chunks before it to its slots.
PrefixSecond(id) ==
    /\ phase = "Summing"
    /\ loop.branch = "second"
    /\ id \in loop.todo
    /\ LET r == ChunkRange( id )
           acc == _n + ( IF id > 0 THEN loop.local_prefix_sum[id - 1] ELSE 0 )
       IN  /\ _buffer' = [ a \in DOMAIN _buffer |->
                             IF a - pref_sum \in r.lower .. r.upper - 1
                             THEN _buffer[a] + acc
                             ELSE _buffer[a] ]
           /\ Log( id,
                   { << "second", "pref_sum", i >> :
                       i \in r.lower .. r.upper - 1 }
                   \cup ( IF id > 0
                          THEN { << "second", "local_prefix_sum", id - 1 >> }
                          ELSE {} ),
                   { << "second", "pref_sum", i >> :
                       i \in r.lower .. r.upper - 1 } )
    /\ loop' = [ loop EXCEPT !.todo = @ \ { id } ]
    /\ UNCHANGED << coord, _buf, bindings, workers, phase, episode, objs, at,
                    g_pre, g_ins, history, order, fault >>

\* _n = pref_sum[ num_tiles - 1 ];
PrefixEnd ==
    /\ phase = "Summing"
    /\ loop.branch = "second"
    /\ loop.todo = {}
    /\ _n' = Rd( _buffer, pref_sum + analytic_model.num_tiles - 1, 0 )
    /\ loop' = [ loop EXCEPT !.branch = "done" ]
    /\ phase' = "Reconciled"
    /\ g_chunks' = loop.num_tiles
    /\ UNCHANGED << _cap, _assigned, _stack, scratch, bindings, workers,
                    episode, objs, micro, g_pre, g_ins, history, g_early,
                    g_skipped, g_calls, fault >>

\* The workers take their turns one after the other.
InTurn(w) == \A u \in DOMAIN tiles : u < w => pc[u] = "committed"

NextParallelPrefix ==
    \/ NoEpisodeYet /\ \E i \in 0 .. _cap - 1 : Assign( i )
    \/ NoEpisodeYet /\ \E tile_size \in TileSizes :
          LocalCoordinatesInit( tile_size,
              UniformTiles( AnalyticModel( tile_size, _cap ), _cap ) )
    \/ \E w \in DOMAIN tiles : InTurn( w ) /\ AsyncSubsetInit( w )
    \/ \E w \in DOMAIN tiles :
          InTurn( w ) /\ pc[w] = "inited" /\ AsyncSubset( w )
    \/ \E w \in DOMAIN tiles : \E j \in 0 .. view[w].cap - 1 : ViewAssign( w, j )
    \/ \E w \in DOMAIN tiles : AsyncJoinSubset( w )
    \/ \E prefix_sum_tile_size \in 1 .. MaxPrefixTile :
          PrefixBegin( prefix_sum_tile_size )
    \/ \E id \in loop.todo : PrefixFirst( id )
    \/ PrefixSingle
    \/ \E id \in loop.todo : PrefixSecond( id )
    \/ PrefixEnd

SpecParallelPrefix == Init /\ [][NextParallelPrefix]_vars

----------------------------------------------------------------------------
\* prefixSumComputation called once more in the episode, before any tile
\* is joined.

\* A second call that starts from the count of before the episode.
PrefixSumComputationAgainFromOldCount(prefix_sum_tile_size) ==
    /\ phase = "Reconciled"
    /\ \A w \in DOMAIN tiles : pc[w] = "committed"
    /\ op.name # "prefixSumComputation"
    /\ \E g \in Uninit( Counters ) :
          LET mem == prefixSumComputation( prefix_sum_tile_size, g )
          IN  /\ _buffer' = mem
              /\ _n' = Rd( mem, pref_sum + analytic_model.num_tiles - 1, g )
                       - ( _n - g_pre.n )
    /\ op' = Call( "prefixSumComputation", 0, prefix_sum_tile_size )
    /\ g_chunks' = IF analytic_model.num_tiles < prefix_sum_tile_size
                   THEN 0
                   ELSE AnalyticModel( prefix_sum_tile_size,
                                       analytic_model.num_tiles ).num_tiles
    /\ UNCHANGED << _cap, _assigned, _stack, _buf, bindings, workers, phase,
                    episode, loop, objs, micro, g_pre, g_ins, ret, g_since,
                    g_cleared, g_prev, g_early, g_skipped, g_calls, fault >>

PrefixSumComputationAgain(prefix_sum_tile_size) ==
    /\ phase = "Reconciled"
    /\ \A w \in DOMAIN tiles : pc[w] = "committed"
    /\ op.name # "prefixSumComputation"
    /\ \E g \in Uninit( Counters ) :
          LET mem == prefixSumComputation( prefix_sum_tile_size, g )
          IN  /\ _buffer' = mem
              /\ _n' = Rd( mem, pref_sum + analytic_model.num_tiles - 1, g )
    /\ op' = Call( "prefixSumComputation", 0, prefix_sum_tile_size )
    /\ g_chunks' = IF analytic_model.num_tiles < prefix_sum_tile_size
                   THEN 0
                   ELSE AnalyticModel( prefix_sum_tile_size,
                                       analytic_model.num_tiles ).num_tiles
    /\ UNCHANGED << _cap, _assigned, _stack, _buf, bindings, workers, phase,
                    episode, loop, objs, micro, g_pre, g_ins, ret, g_since,
                    g_cleared, g_prev, g_early, g_skipped, g_calls, fault >>

NextPrefixTwice ==
    \/ NoEpisodeYet /\ \E i \in 0 .. _cap - 1 : Assign( i )
    \/ NoEpisodeYet /\ \E tile_size \in TileSizes :
          LocalCoordinatesInit( tile_size,
              UniformTiles( AnalyticModel( tile_size, _cap ), _cap ) )
    \/ \E w \in DOMAIN tiles : InTurn( w ) /\ AsyncSubsetInit( w )
    \/ \E w \in DOMAIN tiles :
          InTurn( w ) /\ pc[w] = "inited" /\ AsyncSubset( w )
    \/ \E w \in DOMAIN tiles : \E j \in 0 .. view[w].cap - 1 : ViewAssign( w, j )
    \/ \E w \in DOMAIN tiles : AsyncJoinSubset( w )
    \/ \E prefix_sum_tile_size \in 1 .. MaxPrefixTile :
          PrefixSumComputation( prefix_sum_tile_size )
    \/ \E prefix_sum_tile_size \in 1 .. MaxPrefixTile :
          PrefixSumComputationAgain( prefix_sum_tile_size )
    \/ \E w \in DOMAIN tiles : JoinSubset( w )

SpecPrefixTwice == Init /\ [][NextPrefixTwice]_vars

----------------------------------------------------------------------------
\* An episode in which the views are cleared with local_clear and the
\* global count is reset with reset_global_nnz_counter.

\* local_clear() on the view of range w. What was assigned in the range so
\* far in the episode is no longer an insertion of the episode.
LocalClear(w) ==
    /\ phase = "Episode"
    /\ pc[w] = "active"
    /\ LET v == view[w]
           r == local_clear( Deref( v ) )
       IN  /\ _assigned' = [ i \in DOMAIN _assigned |->
                               IF i >= v.assigned
                               THEN r.c.assigned[i - v.assigned]
                               ELSE _assigned[i] ]
           /\ _buffer' = IF r.local_nnzs # << >>
                         THEN Wr( _buffer, v.stack - 1,
                                  r.local_nnzs[Len( r.local_nnzs )] )
                         ELSE _buffer
           /\ view' = [ view EXCEPT ![w].n = r.c.n ]
           /\ fault' = ( fault \/ r.fault )
           /\ g_ins' = { i \in g_ins :
                           ~ ( tiles[w].lower <= i /\ i < tiles[w].upper ) }
    /\ op' = Call( "local_clear", w,
                   IF op = Call( "local_clear", w, 0 ) THEN 1 ELSE 0 )
    /\ g_calls' = g_calls \cup { << "local_clear", w >> }
    /\ UNCHANGED << _cap, _n, _stack, _buf, bindings, tiles, pc, phase,
                    episode, loop, objs, micro, g_pre, ret, g_since,
                    g_cleared, g_prev, g_chunks, g_early, g_skipped >>

\* The ranges on which asyncSubsetInit has not run yet.
NotInitialised == { w \in DOMAIN tiles : pc[w] = "start" }

\* A reset_global_nnz_counter() that leaves the count as it is.
ResetGlobalNnzCounterKeepsCount ==
    /\ phase = "Episode"
    /\ \A e \in g_calls : e[1] # "reset_global_nnz_counter"
    /\ g_calls' = g_calls \cup { << "reset_global_nnz_counter",
                                    Cardinality( NotInitialised ) >> }
    /\ UNCHANGED << coord, scratch, bindings, workers,
                    phase, episode, loop, objs, micro, g_pre, g_ins, history,
                    g_chunks, g_early, g_skipped, fault >>

\* reset_global_nnz_counter() on the global structure, before
\* prefixSumComputation; g_calls keeps how many ranges were not initialised
\* when it was called.
ResetGlobalNnzCounter ==
    /\ phase = "Episode"
    /\ \A e \in g_calls : e[1] # "reset_global_nnz_counter"
    /\ _n' = 0
    /\ g_calls' = g_calls \cup { << "reset_global_nnz_counter",
                                    Cardinality( NotInitialised ) >> }
    /\ UNCHANGED << _cap, _assigned, _stack, scratch, bindings, workers,
                    phase, episode, loop, objs, micro, g_pre, g_ins, history,
                    g_chunks, g_early, g_skipped, fault >>

NextLocalClear ==
    \/ NoEpisodeYet /\ \E i \in 0 .. _cap - 1 : Assign( i )
    \/ NoEpisodeYet /\ \E tile_size \in LargeTileSizes :
          LocalCoordinatesInit( tile_size,
              UniformTiles( AnalyticModel( tile_size, _cap ), _cap ) )
    \/ \E w \in DOMAIN tiles : InTurn( w ) /\ AsyncSubsetInit( w )
    \/ \E w \in DOMAIN tiles : pc[w] = "inited" /\ AsyncSubset( w )
    \/ \E w \in DOMAIN tiles : \E j \in 0 .. view[w].cap - 1 : ViewAssign( w, j )
    \/ \E w \in DOMAIN tiles :
          << "local_clear", w >> \notin g_calls /\ LocalClear( w )
    \/ ResetGlobalNnzCounter
    \/ \E w \in DOMAIN tiles : AsyncJoinSubset( w )
    \/ PrefixSumComputation( MaxPrefixTile )
    \/ \E w \in DOMAIN tiles : JoinSubset( w )

SpecLocalClear == Init /\ [][NextLocalClear]_vars

----------------------------------------------------------------------------
\* An episode in which the views are filled with local_assignAll and the
\* global count is reset with reset_global_nnz_counter.

NextDenseAll ==
    \/ NoEpisodeYet /\ \E i \in 0 .. _cap - 1 : Assign( i )
    \/ NoEpisodeYet /\ \E tile_size \in LargeTileSizes :
          LocalCoordinatesInit( tile_size,
              UniformTiles( AnalyticModel( tile_size, _cap ), _cap ) )
    \/ \E w \in DOMAIN tiles : InTurn( w ) /\ AsyncSubsetInit( w )
    \/ \E w \in DOMAIN tiles : pc[w] = "inited" /\ AsyncSubset( w )
    \/ \E w \in DOMAIN tiles : \E j \in 0 .. view[w].cap - 1 : ViewAssign( w, j )
    \/ \E w \in DOMAIN tiles : \E maybe_invalid \in BOOLEAN :
          << "local_assignAll", w >> \notin g_calls
          /\ LocalAssignAll( w, maybe_invalid )
    \/ ResetGlobalNnzCounter
    \/ \E w \in DOMAIN tiles : AsyncJoinSubset( w )
    \/ PrefixSumComputation( MaxPrefixTile )
    \/ \E w \in DOMAIN tiles : JoinSubset( w )

SpecDenseAll == Init /\ [][NextDenseAll]_vars

----------------------------------------------------------------------------
\* A copy of the global structure, made with the copy constructor, and
\* assign called through the copy. The arrays _assigned and _stack are the
\* memory that set() bound; the copy is the record of its six members.

\* The members of the global structure, as an object.
ThisObject ==
    [ assigned |-> << << "this", "arr" >>, 0 >>,
      stack |-> << << "this", "buf" >>, 0 >>,
      buffer |-> << << "this", "buf" >>, _cap >>,
      n |-> _n,
      cap |-> _cap,
      buf |-> _buf ]

\* Coordinates copy( *this );
CopyConstruct ==
    /\ phase = "Idle"
    /\ LET r == copyConstruct( [ o \in { "this" } |-> ThisObject ],
                               "copy", "this" )
       IN  /\ objs' = [ o \in { "copy" } |-> r.obj ]
           /\ fault' = ( fault \/ r.fault )
    /\ op' = Call( "Coordinates", 0, 0 )
    /\ UNCHANGED << coord, scratch, bindings, workers, phase, episode, loop,
                    micro, g_pre, g_ins, ret, g_since, g_cleared, g_prev,
                    order >>

\* The Coordinates value the copy stands for: the arrays its pointers name
\* with its own count and capacity.
CopyValue ==
    [ assigned |-> _assigned, stack |-> _stack,
      n |-> objs["copy"].n, cap |-> objs["copy"].cap ]

\* copy.assign( i ) that also raises the count of the original.
AssignThroughCopyCountsBoth(i) ==
    /\ phase = "Idle"
    /\ "copy" \in DOMAIN objs
    /\ objs["copy"].assigned = ThisObject.assigned
    /\ objs["copy"].stack = ThisObject.stack
    /\ i \in 0 .. objs["copy"].cap - 1
    /\ LET r == assign( CopyValue, i )
       IN  /\ _assigned' = r.c.assigned
           /\ _stack' = r.c.stack
           /\ objs' = [ objs EXCEPT !["copy"].n = r.c.n ]
           /\ _n' = r.c.n
           /\ ret' = r.ret
    /\ op' = Call( "copy.assign", 0, i )
    /\ UNCHANGED << _cap, scratch, bindings, workers, phase, episode,
                    loop, micro, g_pre, g_ins, g_since, g_cleared, g_prev,
                    order, fault >>

\* copy.assign( i )
AssignThroughCopy(i) ==
    /\ phase = "Idle"
    /\ "copy" \in DOMAIN objs
    /\ objs["copy"].assigned = ThisObject.assigned
    /\ objs["copy"].stack = ThisObject.stack
    /\ i \in 0 .. objs["copy"].cap - 1
    /\ LET r == assign( CopyValue, i )
       IN  /\ _assigned' = r.c.assigned
           /\ _stack' = r.c.stack
           /\ objs' = [ objs EXCEPT !["copy"].n = r.c.n ]
           /\ ret' = r.ret
    /\ op' = Call( "copy.assign", 0, i )
    /\ UNCHANGED << _cap, _n, scratch, bindings, workers, phase, episode,
                    loop, micro, g_pre, g_ins, g_since, g_cleared, g_prev,
                    order, fault >>

NextAlias ==
    \/ \E i \in 0 .. _cap - 1 : Assign( i )
    \/ CopyConstruct
    \/ \E i \in 0 .. _cap - 1 : AssignThroughCopy( i )

SpecAlias == Init /\ [][NextAlias]_vars

----------------------------------------------------------------------------
\* localCoordinatesInit with the analytic models whose tile size the cache
\* budget, not the dimension, decides.

\* internal::NONBLOCKING::maxBufferTiles( n )
maxBufferTiles(n) == n

\* The assertions of localCoordinatesInit.
Asserted(am) ==
    /\ am.num_tiles > 0
    /\ am.num_tiles <= maxBufferTiles( _cap )
    /\ _buf >= 4 * am.num_tiles

\* The tile sizes of such models.
WideTileSizes == 1 .. 4 * _cap

NextWideTiles ==
    \/ NoEpisodeYet /\ \E i \in 0 .. _cap - 1 : Assign( i )
    \/ NoEpisodeYet /\ \E tile_size \in WideTileSizes :
          /\ Asserted( AnalyticModel( tile_size, _cap ) )
          /\ LocalCoordinatesInit( tile_size,
                 UniformTiles( AnalyticModel( tile_size, _cap ), _cap ) )

SpecWideTiles == Init /\ [][NextWideTiles]_vars

----------------------------------------------------------------------------
\* C1: from a freshly bound empty structure, after any sequence of assign
\* and clear calls, count <= capacity, compactedStack[0..count) has no
\* duplicates and its entries are exactly the indices whose presence is set.
C1_SetEquivalence == I1( This )

\* Two entries out of index order below the count and a stale entry above
\* it: assigns, a clear, and assigns again have acted.
C1_Witness ==
    /\ op.name = "assign"
    /\ g_cleared # "none"
    /\ _n >= 2
    /\ _n < _cap
    /\ _stack[0] > _stack[1]
    /\ _stack[_n] # Undef

\* C5: when assign( i ) directly follows assign( i ), the second call
\* returns true and leaves count, presence and stack as the first left them.
C5_AssignTwice ==
    [][ ( op.name = "assign" /\ op'.name = "assign" /\ op'.i = op.i )
        => ( /\ ret' = TRUE
             /\ _n' = _n
             /\ _assigned' = _assigned
             /\ _stack' = _stack ) ]_vars

\* The second of two consecutive assign( i ) has returned, the first one
\* having inserted i.
C5_Witness ==
    /\ op.name = "assign"
    /\ g_prev = op
    /\ ret = TRUE
    /\ _n >= 1
    /\ _n < _cap
    /\ _stack[_n - 1] = op.i

\* C6: assign( i ) inserts i (presence set, i written at stack[count], count
\* one larger, returns false) when count < capacity and i is absent, and
\* otherwise returns true and changes nothing.
C6_AssignContract ==
    [][ op'.name = "assign"
        => IF _n < _cap /\ ~ _assigned[op'.i]
           THEN /\ _assigned' = [ _assigned EXCEPT ![op'.i] = TRUE ]
                /\ _stack' = [ _stack EXCEPT ![_n] = op'.i ]
                /\ _n' = _n + 1
                /\ ret' = FALSE
                /\ UNCHANGED << _cap, scratch, bindings >>
           ELSE /\ ret' = TRUE
                /\ UNCHANGED << coord, scratch, bindings >> ]_vars

\* An assign has inserted its index on top of an earlier entry.
C6_Witness ==
    /\ op.name = "assign"
    /\ ret = FALSE
    /\ _n >= 2
    /\ _stack[_n - 1] = op.i
    /\ _assigned[op.i]

\* C7: clear() ends with count 0 and no presence bit set, from a dense and
\* from a sparse structure; assigning every index after a clear makes the
\* count equal the capacity again.
C7_ClearResets ==
    /\ op.name = "clear" => ( _n = 0 /\ \A i \in 0 .. _cap - 1 : ~ _assigned[i] )
    /\ ( g_cleared # "none" /\ g_since = 0 .. _cap - 1 ) => _n = _cap

\* A sparse, non-empty structure was cleared and then made dense again.
C7_Witness ==
    /\ g_cleared = "sparse"
    /\ _cap >= 2
    /\ g_since = 0 .. _cap - 1
    /\ _n = _cap
    /\ _stack[0] # 0

\* C8: with count = capacity isDense() holds and index( k ) = k for every
\* k below the count, whatever the stack holds; with count < capacity
\* index( k ) is stack[k].
C8_DensityBoundary ==
    /\ _n = _cap => /\ isDense( This )
                    /\ \A k \in 0 .. _n - 1 : index( This, k ) = k
    /\ _n < _cap => /\ ~ isDense( This )
                    /\ \A k \in 0 .. _n - 1 : index( This, k ) = _stack[k]

\* A dense structure whose stack is not the identity.
C8_Witness ==
    /\ _n = _cap
    /\ _cap >= 2
    /\ _stack[0] # 0

----------------------------------------------------------------------------
\* The sequential reference of an episode: assign applied to the structure
\* for the indices of order, one after the other.
RECURSIVE assignInOrder(_, _)
assignInOrder(c, seq) ==
    IF seq = << >>
    THEN c
    ELSE assignInOrder( assign( c, Head( seq ) ).c, Tail( seq ) )

\* Every order in which the indices of S can be assigned once each.
Orders(S) ==
    { f \in [ 1 .. Cardinality( S ) -> S ] :
        \A a, b \in DOMAIN f : f[a] = f[b] => a = b }

\* The episode has run to its end: prefix sum done, every range joined.
EpisodeDone == episode = 1 /\ phase = "Idle"

TiledByModel == tiles = UniformTiles( analytic_model, _cap )

SameAsSequential ==
    \A seq \in Orders( g_ins ) :
        LET c == assignInOrder( g_pre, seq )
        IN  /\ _n = c.n
            /\ StackSet( This ) = StackSet( c )

NewNnzs(t) == _buffer[local_new_nnzs + t]

PrefSum(t) == _buffer[pref_sum + t]

RECURSIVE SumOfNewNnzs(_)
SumOfNewNnzs(t) == IF t < 0 THEN 0 ELSE NewNnzs( t ) + SumOfNewNnzs( t - 1 )

JustReconciled ==
    /\ phase = "Reconciled"
    /\ \A w \in DOMAIN tiles : pc[w] = "committed"

\* C3: after prefixSumComputation, on its sequential and on its parallel
\* branch, pref_sum[t] = oldCount + counters[0] + ... + counters[t] for
\* every tile t (what the debug cross-check asserts), and the global count
\* is oldCount + the sum of all counters.
C3_PrefixSum ==
    JustReconciled =>
        /\ \A t \in 0 .. analytic_model.num_tiles - 1 :
              PrefSum( t ) = g_pre.n + SumOfNewNnzs( t )
        /\ _n = g_pre.n + SumOfNewNnzs( analytic_model.num_tiles - 1 )

\* The parallel branch ran with several chunks on a non-empty structure,
\* with new nonzeroes in the first and in the last tile.
C3_Witness ==
    /\ JustReconciled
    /\ g_chunks >= 2
    /\ g_pre.n >= 1
    /\ NewNnzs( 0 ) >= 1
    /\ NewNnzs( analytic_model.num_tiles - 1 ) >= 1

\* C4: when joinSubset ran for a tile with committed new nonzeroes before
\* prefixSumComputation, the structure at the end of the episode violates
\* I1.
C4_JoinBeforePrefixSum == ( EpisodeDone /\ g_early ) => ~ I1( This )

\* Such an episode has ended, without any write outside the stack.
C4_Witness ==
    /\ EpisodeDone
    /\ g_early
    /\ ~ fault
    /\ Len( tiles ) >= 2

\* The step in which the worker of range w commits its view.
CommitStep(w) == pc[w] = "active" /\ pc'[w] = "committed"

\* C9: asyncJoinSubset stores view.count minus the tile's pre-existing
\* local count in the tile's new-nonzero counter and changes no other
\* scratch slot, nor the global count, stack or presence.
C9_AsyncJoinSubsetFrame ==
    [][ \A w \in DOMAIN tiles :
          CommitStep( w ) =>
            LET counter == local_new_nnzs + TileId( tiles[w].lower )
            IN  /\ _buffer'[counter]
                     = view[w].n
                       - _buffer[local_buffer[TileId( tiles[w].lower )]]
                /\ \A a \in DOMAIN _buffer \ { counter } :
                      _buffer'[a] = _buffer[a]
                /\ UNCHANGED << _n, _stack, _assigned >> ]_vars

\* A tile that held entries before the episode has committed new ones.
C9_Witness ==
    \E w \in DOMAIN tiles :
        /\ pc[w] = "committed"
        /\ NewNnzs( TileId( tiles[w].lower ) ) >= 1
        /\ _buffer[local_buffer[TileId( tiles[w].lower )]] >= 1

\* The step in which some range is joined.
JoinStep == \E w \in DOMAIN tiles : pc[w] = "committed" /\ pc'[w] = "joined"

\* C10: in an episode every step other than a joinSubset, that is
\* localCoordinatesInit, asyncSubsetInit, asyncSubset, assign on a view,
\* asyncJoinSubset, newNonZeroes and prefixSumComputation, leaves every
\* slot of the global stack unchanged.
C10_StackWrittenByJoinOnly ==
    [][ ( episode' >= 1 /\ ~ JoinStep ) => _stack' = _stack ]_vars

\* The episode has ended, its joins having written the global stack, and
\* newNonZeroes has reported the committed nonzeroes.
C10_Witness ==
    /\ EpisodeDone
    /\ _stack # g_pre.stack
    /\ ret = TRUE

\* The step in which prefixSumComputation runs.
PrefixSumStep == phase = "Episode" /\ phase' # "Episode"

\* C11 (as amended): during an episode the global count is written by
\* prefixSumComputation only (it sets it to pref_sum[numTiles - 1]); no
\* other phase (localCoordinatesInit, asyncSubsetInit, asyncSubset, view
\* assign, asyncJoinSubset, newNonZeroes, joinSubset) changes it.
C11_CountWrittenByPrefixSum ==
    [][ ( episode' >= 1 /\ ~ PrefixSumStep ) => _n' = _n ]_vars

\* C11 as stated: during an episode only joinSubset changes the global
\* count.
C11_CountWrittenByJoinOnly ==
    [][ ( episode' >= 1 /\ ~ JoinStep ) => _n' = _n ]_vars

\* prefixSumComputation has raised the count and a tile has been joined
\* since, another one not yet.
C11_Witness ==
    /\ phase = "Reconciled"
    /\ _n > g_pre.n
    /\ \E w \in DOMAIN tiles : pc[w] = "joined"

\* The step in which range w is joined.
JoinStepOf(w) == pc[w] = "committed" /\ pc'[w] = "joined"

\* The tiles' pre-existing local counts and local stacks.
LocalNnzs(t) == _buffer[local_buffer[t]]

LocalStack(t, k) == _buffer[local_buffer[t] + 1 + k]

\* C12: joinSubset( lower, upper ) after prefixSumComputation copies the
\* tile's local stack entries [preexisting, preexisting + new), each plus
\* lower, to the global stack slots [pref_sum[tile] - new, pref_sum[tile])
\* in local order, writes no other slot of the global stack, and sets the
\* tile's counter to zero; every copied index is in [lower, upper) and is
\* present.
C12_JoinSubsetCopies ==
    [][ \A w \in DOMAIN tiles :
          JoinStepOf( w ) =>
            LET t == TileId( tiles[w].lower )
                new == NewNnzs( t )
                pos == PrefSum( t ) - new
            IN  /\ \A k \in 0 .. new - 1 :
                      LET global_index == LocalStack( t, LocalNnzs( t ) + k )
                                          + tiles[w].lower
                      IN  /\ _stack'[pos + k] = global_index
                          /\ tiles[w].lower <= global_index
                          /\ global_index < tiles[w].upper
                          /\ _assigned[global_index]
                /\ \A k \in DOMAIN _stack \ ( pos .. pos + new - 1 ) :
                      _stack'[k] = _stack[k]
                /\ _buffer' = [ _buffer EXCEPT ![local_new_nnzs + t] = 0 ]
      ]_vars

\* A tile that held an entry before the episode and got two new ones has
\* been joined.
C12_Witness ==
    \E w \in DOMAIN tiles :
        /\ pc[w] = "joined"
        /\ phase # "Episode"
        /\ LocalNnzs( TileId( tiles[w].lower ) ) >= 1
        /\ Cardinality( { i \in g_ins \ Present( g_pre ) :
                            tiles[w].lower <= i /\ i < tiles[w].upper } ) >= 2

\* The slots of the global stack that joinSubset of tile t will write.
Dest(t) == PrefSum( t ) - NewNnzs( t ) .. PrefSum( t ) - 1

AllTiles == 0 .. analytic_model.num_tiles - 1

\* C13: after prefixSumComputation the destination ranges
\* [pref_sum[t] - new[t], pref_sum[t]) of distinct tiles are pairwise
\* disjoint and cover exactly [oldCount, newCount), and they stay disjoint
\* and inside [oldCount, newCount), below capacity, while the tiles are
\* joined in any order; no join writes outside the stack.
C13_DisjointDestinations ==
    phase = "Reconciled" =>
        /\ \A t1, t2 \in AllTiles :
              t1 # t2 => Dest( t1 ) \cap Dest( t2 ) = {}
        /\ UNION { Dest( t ) : t \in AllTiles } \subseteq g_pre.n .. _n - 1
        /\ JustReconciled =>
              UNION { Dest( t ) : t \in AllTiles } = g_pre.n .. _n - 1
        /\ _n <= _cap
        /\ ~ fault

\* Two tiles with new nonzeroes wait to be joined on a non-empty
\* structure.
C13_Witness ==
    /\ JustReconciled
    /\ g_pre.n >= 1
    /\ \E t1, t2 \in AllTiles :
          t1 # t2 /\ NewNnzs( t1 ) >= 1 /\ NewNnzs( t2 ) >= 1

\* Every range has been committed and the prefix sum has not run yet.
AllCommitted ==
    /\ phase = "Episode"
    /\ \A w \in DOMAIN tiles : pc[w] = "committed"

\* What the tiles hold is what assign of the same indices, one call after
\* the other, gives: the same presence, per tile the same entries, each
\* once, and as many new nonzeroes in total.
SameAsOneAfterAnother ==
    \A seq \in Orders( g_ins ) :
        LET c == assignInOrder( g_pre, seq )
        IN  /\ Present( This ) = Present( c )
            /\ \A w \in DOMAIN tiles :
                  LET t == TileId( tiles[w].lower )
                      held == LocalNnzs( t ) + NewNnzs( t )
                      mine == Present( c )
                              \cap ( tiles[w].lower .. tiles[w].upper - 1 )
                  IN  /\ held = Cardinality( mine )
                      /\ { LocalStack( t, k ) + tiles[w].lower :
                             k \in 0 .. held - 1 } = mine
            /\ SumOfNewNnzs( analytic_model.num_tiles - 1 ) = c.n - g_pre.n

\* C14: during Local Active, for any interleaving of the lines of assign
\* calls and of asyncJoinSubset calls by the workers of distinct tiles, no
\* slot of the presence array or of the scratch buffer (local stacks,
\* local counts, counters) that one worker wrote is read or written by
\* another, and once all have committed the tiles hold what running the
\* same calls one after another gives.
C14_NoSharedLocation ==
    /\ \A w1, w2 \in DOMAIN touched :
          w1 # w2 => touched[w1].wr
                     \cap ( touched[w2].rd \cup touched[w2].wr ) = {}
    /\ AllCommitted => SameAsOneAfterAnother

\* Two workers are inside assign at the same time, each having written
\* already, on a structure that held entries before.
C14_Witness ==
    /\ g_pre.n >= 1
    /\ \E w1, w2 \in DOMAIN tiles :
          /\ w1 # w2
          /\ at[w1].line = "push"
          /\ at[w2].line = "push"
          /\ touched[w1].wr # {}
          /\ touched[w2].wr # {}

\* The step in which the worker of range w gets its view from asyncSubset.
RetrieveStep(w) == pc[w] \in { "inited", "committed" } /\ pc'[w] = "active"

\* An assign on the view of range w that inserts.
InsertStep(w) == pc[w] = "active" /\ pc'[w] = "active" /\ view'[w] # view[w]

\* An assign on a view that finds its index present or its view full.
NoInsertStep == phase = "Episode" /\ workers' = workers /\ g_ins' # g_ins

\* C15: asyncSubset( lower, upper ) returns a view of capacity
\* upper - lower whose count is the tile's pre-existing local count plus
\* its committed counter, whose presence starts at global slot lower and
\* whose stack is the tile's segment; an assign( j ) on it that inserts
\* sets global presence[lower + j] and writes j to the segment's slot
\* [count], one that does not insert changes nothing, and neither changes
\* the global stack or the global count.
C15_AsyncSubsetView ==
    [][ \A w \in DOMAIN tiles :
          LET t == TileId( tiles[w].lower )
          IN  /\ RetrieveStep( w ) =>
                    /\ view'[w] = [ assigned |-> tiles[w].lower,
                                    stack |-> local_buffer[t] + 1,
                                    n |-> LocalNnzs( t ) + NewNnzs( t ),
                                    cap |-> tiles[w].upper - tiles[w].lower ]
                    /\ UNCHANGED << coord, scratch >>
              /\ InsertStep( w ) =>
                    /\ UNCHANGED << _stack, _n >>
                    /\ \E j \in 0 .. view[w].cap - 1 :
                          /\ ~ _assigned[tiles[w].lower + j]
                          /\ _assigned' = [ _assigned EXCEPT
                                              ![tiles[w].lower + j] = TRUE ]
                          /\ _buffer' = [ _buffer EXCEPT
                                            ![local_buffer[t] + 1
                                              + view[w].n] = j ]
                          /\ view' = [ view EXCEPT ![w].n = @ + 1 ]
              /\ NoInsertStep => UNCHANGED << coord, scratch >>
      ]_vars

\* A view that does not start at global slot 0 has taken a new index, in a
\* tile that held none before.
C15_Witness ==
    \E w \in DOMAIN tiles :
        /\ pc[w] = "active"
        /\ tiles[w].lower >= 1
        /\ LocalNnzs( TileId( tiles[w].lower ) ) = 0
        /\ view[w].n = 1
        /\ g_pre.n >= 1

\* What asyncSubset would return for range w, and the entries of the
\* stack of a view.
Retrieved(w) == asyncSubset( tiles[w].lower, tiles[w].upper, 0 )

EntriesIn(mem, v) == [ k \in 0 .. v.n - 1 |-> mem[v.stack + k] ]

Entries(v) == EntriesIn( _buffer, v )

\* The indices of range w that were first assigned in this episode.
NewIn(w) ==
    { i \in g_ins \ Present( g_pre ) :
        tiles[w].lower <= i /\ i < tiles[w].upper }

\* C16: within an episode, right after asyncJoinSubset( view, lower,
\* upper ) a call of asyncSubset( lower, upper ) would return a view equal
\* to the saved one, count and stack entries, and this stays so until the
\* range's worker retrieves it, whatever the other workers do; the counter
\* that asyncJoinSubset records is the number of the tile's new entries of
\* all rounds of the episode, not of the last round only.
C16_SaveAndRetrieve ==
    [][ \A w \in DOMAIN tiles :
          /\ CommitStep( w ) =>
                /\ Retrieved( w )' = view[w]
                /\ EntriesIn( _buffer', view[w] ) = Entries( view[w] )
                /\ NewNnzs( TileId( tiles[w].lower ) )'
                     = Cardinality( NewIn( w ) )
          /\ ( phase' = "Episode" /\ pc[w] = "committed"
                                 /\ pc'[w] = "committed" ) =>
                /\ Retrieved( w )' = Retrieved( w )
                /\ Entries( Retrieved( w ) )' = Entries( Retrieved( w ) )
          /\ ( pc[w] = "committed" /\ RetrieveStep( w ) ) =>
                /\ view'[w] = Retrieved( w )
                /\ Entries( view[w] )' = Entries( Retrieved( w ) )
      ]_vars

\* A view retrieved after a commit that recorded a new entry has taken
\* another one: the second round is about to be committed.
C16_Witness ==
    \E w \in DOMAIN tiles :
        /\ pc[w] = "active"
        /\ NewNnzs( TileId( tiles[w].lower ) ) >= 1
        /\ view[w].n > LocalNnzs( TileId( tiles[w].lower ) )
                       + NewNnzs( TileId( tiles[w].lower ) )

\* A call of newNonZeroes that the history shows.
NewNonZeroesStep ==
    /\ op'.name = "newNonZeroes"
    /\ ( op' # op \/ ret' # ret )

\* asyncSubsetInit has run for every range of the episode.
AllInited == \A w \in DOMAIN tiles : pc[w] # "start"

\* C17: newNonZeroes() changes no state; once asyncSubsetInit has run on
\* every tile it returns true exactly when some tile that is not joined
\* yet has a committed counter > 0; it returns false when every tile is
\* initialised and none has been retrieved yet, and false when joinSubset
\* has run for every tile and the episode is back to Idle.
C17_NewNonZeroes ==
    [][ NewNonZeroesStep =>
          /\ UNCHANGED << coord, scratch, bindings, workers, phase >>
          /\ AllInited =>
                ( ret' <=> \E w \in DOMAIN tiles :
                              /\ pc[w] \in { "committed", "active" }
                              /\ NewIn( w ) # {}
                              /\ NewNnzs( TileId( tiles[w].lower ) ) > 0 )
          /\ ( \A w \in DOMAIN tiles : pc[w] = "inited" ) => ~ ret'
          /\ EpisodeDone => ~ ret'
      ]_vars

\* newNonZeroes has returned false at the end of an episode that had
\* committed new nonzeroes in its last tile only.
C17_Witness ==
    /\ EpisodeDone
    /\ op.name = "newNonZeroes"
    /\ ~ ret
    /\ Len( tiles ) >= 2
    /\ NewIn( Len( tiles ) ) # {}
    /\ \A w \in 1 .. Len( tiles ) - 1 : NewIn( w ) = {}

\* C18 as stated: on a structure of capacity 0 every phase
\* (asyncSubsetInit, asyncSubset, asyncJoinSubset, newNonZeroes,
\* prefixSumComputation, joinSubset) is a no-op and not a fault: no
\* assertion fails, nothing is divided by zero, no slot outside the
\* buffers is accessed, and the count stays 0.
C18_NoOpOnEmpty == _cap = 0 => ( ~ fault /\ _n = 0 )

\* The second episode has run to its end.
SecondEpisodeDone == episode = 2 /\ phase = "Idle"

\* C19 (as amended): if joinSubset is not invoked for a tile that
\* contributed zero new nonzeroes in an episode, nothing is lost: the
\* tile's counter is 0 already and the next episode's asyncSubsetInit
\* stores 0 again, so a subsequent episode does not double-count: the
\* count it reconciles is the number of present indices and I1 holds.
C19_SkippedJoinHarmless ==
    ( SecondEpisodeDone /\ 1 \in g_skipped ) =>
        /\ _n = Cardinality( Present( This ) )
        /\ I1( This )

\* C19 as stated: after such an omission the count reconciled by a later
\* episode exceeds the number of present indices.
C19_SkippedJoinDoubleCounts ==
    ( SecondEpisodeDone /\ 1 \in g_skipped ) =>
        _n > Cardinality( Present( This ) )

\* A first episode with new nonzeroes left a tile unjoined, and a second
\* one with new nonzeroes has been reconciled and joined in full.
C19_Witness ==
    /\ SecondEpisodeDone
    /\ g_skipped = { 1 }
    /\ g_pre.n >= 1
    /\ g_ins \ Present( g_pre ) # {}
    /\ Len( tiles ) >= 2

\* C20 as stated: after an episode is given up with new indices assigned
\* through views, clear() on the global structure leaves count 0 and no
\* presence bit set, so that I1 holds from then on and the first assign
\* after it inserts its index.
C20_ClearAfterAbort ==
    Aborted =>
        /\ op.name = "clear" =>
              ( _n = 0 /\ \A i \in 0 .. _cap - 1 : ~ _assigned[i] )
        /\ I1( This )
        /\ ( op.name = "assign" /\ g_prev.name = "clear" ) => ~ ret

\* A step in which the bulk call name is made on the view of range w.
BulkStep(w, name) == op' # op /\ op'.name = name /\ op'.w = w

\* The Coordinates value c is dense: full count, every presence bit set,
\* the stack a permutation of its indices.
Dense(c) ==
    /\ c.n = c.cap
    /\ \A i \in 0 .. c.cap - 1 : c.assigned[i]
    /\ \A i \in 0 .. c.cap - 1 : \E k \in 0 .. c.cap - 1 : c.stack[k] = i

\* C21: local_assignAll and local_assignAllNotAlreadyAssigned, called on
\* a view that satisfies I1, fail no assertion and leave the view dense:
\* its count is its capacity, every index of the view is present and
\* stack[0..capacity) is a permutation of [0, capacity).
C21_AssignAllMakesDense ==
    [][ \A w \in DOMAIN tiles :
          ( /\ \/ BulkStep( w, "local_assignAll" )
               \/ BulkStep( w, "local_assignAllNotAlreadyAssigned" )
            /\ I1( Deref( view[w] ) )
            /\ ~ fault )
          => ( Dense( Deref( view[w] ) )' /\ ~ fault' ) ]_vars

\* local_assignAllNotAlreadyAssigned has made a partly filled view of two
\* or more indices dense, its stack not in index order.
C21_Witness ==
    /\ op.name = "local_assignAllNotAlreadyAssigned"
    /\ pc[op.w] = "active"
    /\ view[op.w].cap >= 2
    /\ Dense( Deref( view[op.w] ) )
    /\ Deref( view[op.w] ).stack[0] # 0
    /\ _buffer[view[op.w].stack - 1] > 0

\* The global indices of range w, and those of them present when the
\* episode began.
RangeOf(w) == tiles[w].lower .. tiles[w].upper - 1

PreExisting(w) == RangeOf( w ) \cap Present( g_pre )

\* C22: local_assignAllNotAlreadyAssigned on a tile view leaves the stack
\* positions below the view's count, the slot before the stack, the global
\* count and stack and the presence bits of other tiles unchanged and
\* appends exactly the indices that were absent; the view then stays
\* dense until it is committed, the commit of a dense view records
\* capacity - p new nonzeroes, p being the number of the tile's indices
\* present when the episode began, and joinSubset then adds exactly the
\* tile's indices that were not among those p to the global stack.
C22_NotAlreadyAssignedFrame ==
    [][ \A w \in DOMAIN tiles :
          LET v == view[w]
              t == TileId( tiles[w].lower )
              p == Cardinality( PreExisting( w ) )
          IN  /\ BulkStep( w, "local_assignAllNotAlreadyAssigned" ) =>
                   /\ \A k \in 0 .. v.n - 1 :
                         _buffer'[v.stack + k] = _buffer[v.stack + k]
                   /\ { _buffer'[v.stack + k] : k \in v.n .. v.cap - 1 }
                         = { j \in 0 .. v.cap - 1 : ~ _assigned[v.assigned + j] }
                   /\ _buffer'[v.stack - 1] = _buffer[v.stack - 1]
                   /\ \A i \in 0 .. _cap - 1 :
                         i \notin RangeOf( w ) => _assigned'[i] = _assigned[i]
                   /\ view'[w].n = v.cap
                   /\ UNCHANGED << _n, _stack >>
              /\ ( pc[w] = "active" /\ v.n = v.cap /\ pc'[w] = "active" )
                   => view'[w].n = v.cap
              /\ ( CommitStep( w ) /\ v.n = v.cap ) =>
                   /\ LocalNnzs( t ) = p
                   /\ NewNnzs( t )' = v.cap - p
              /\ ( JoinStepOf( w )
                   /\ NewNnzs( t ) = tiles[w].upper - tiles[w].lower - p ) =>
                   /\ { _stack'[k] : k \in Dest( t ) }
                         = RangeOf( w ) \ PreExisting( w )
                   /\ Cardinality( Dest( t ) ) = NewNnzs( t )
                   /\ \A k \in DOMAIN _stack :
                         k \notin Dest( t ) => _stack'[k] = _stack[k] ]_vars

\* An episode is over in which the last bulk call made a view dense that
\* had some but not all of its indices before the episode; the global
\* structure holds the whole range, each index once.
C22_Witness ==
    /\ EpisodeDone
    /\ op.name = "local_assignAllNotAlreadyAssigned"
    /\ PreExisting( op.w ) # {}
    /\ PreExisting( op.w ) # RangeOf( op.w )
    /\ RangeOf( op.w ) \subseteq Present( This )
    /\ I1( This )

\* The slot before the local stack of the view v: its local_nnzs.
SlotBefore(v) == _buffer[v.stack - 1]

\* C23: after local_assignAll on a tile view the local-count slot just
\* before the view's stack is zero; local_assignAllNotAlreadyAssigned
\* leaves that slot as it was, the tile's count of pre-existing entries.
C23_LocalCountSlot ==
    [][ \A w \in DOMAIN tiles :
          /\ BulkStep( w, "local_assignAll" ) => SlotBefore( view[w] )' = 0
          /\ BulkStep( w, "local_assignAllNotAlreadyAssigned" ) =>
                SlotBefore( view[w] )' = SlotBefore( view[w] ) ]_vars

\* C23 as stated: after either call the slot before the view's stack is
\* zero.
C23_SlotZeroAfterEither ==
    [][ \A w \in DOMAIN tiles :
          ( \/ BulkStep( w, "local_assignAll" )
            \/ BulkStep( w, "local_assignAllNotAlreadyAssigned" ) )
          => SlotBefore( view[w] )' = 0 ]_vars

\* local_assignAll was called on the view of a tile that had entries
\* before the episode; the slot before its stack, which asyncSubsetInit
\* had set to their number, is zero.
C23_Witness ==
    /\ op.name = "local_assignAll"
    /\ pc[op.w] = "active"
    /\ PreExisting( op.w ) # {}
    /\ SlotBefore( view[op.w] ) = 0

\* A step in which this = other runs through the copy-assignment operator.
CopyAssignStep(this, other) ==
    op' # op /\ op'.name = "operator=" /\ op'.w = << this, other >>

\* C24: copy-assignment fails no assertion, whether from the object itself
\* or from another one; afterwards the target has the source's presence,
\* stack and scratch pointers, count, capacity and buffer size, which for
\* x = x are its own, and every other object, the source included, is as
\* it was.
C24_CopyAssignment ==
    [][ \A this \in Objects : \A other \in Objects :
          CopyAssignStep( this, other ) =>
            /\ fault' = fault
            /\ objs'[this] = objs[other]
            /\ \A o \in Objects \ { this } : objs'[o] = objs[o] ]_vars

\* x, which an earlier copy-assignment made refer to the arrays of y's
\* container, has been copy-assigned to itself and still refers to them.
C24_Witness ==
    /\ op.name = "operator="
    /\ op.w = << "x", "x" >>
    /\ ~ fault
    /\ objs["x"] = objs["y"]
    /\ objs["x"].assigned = << << "y", "arr" >>, 0 >>
    /\ objs["x"].n > 0

InitStep(w) == pc[w] = "start" /\ pc'[w] = "inited"

\* The entries of a sequence.
Range(f) == { f[k] : k \in DOMAIN f }

\* C26: asyncSubsetInit( lower, upper ) leaves in the tile's local stack
\* exactly the offsets i - lower of the present indices of [lower, upper),
\* each once, their number in the tile's local count and zero in the
\* tile's new-nonzero counter; the scan of presence[lower..upper) and the
\* filter of the global stack[0..count) yield the same set and the same
\* count, so the branch taken makes no difference to them.
C26_AsyncSubsetInit ==
    [][ \A w \in DOMAIN tiles :
          InitStep( w ) =>
            LET lower == tiles[w].lower
                upper == tiles[w].upper
                t == TileId( lower )
                present == { i - lower : i \in { x \in lower .. upper - 1 :
                                                   _assigned[x] } }
                byPresence == scanAssigned( lower, lower, upper )
                byStack == scanStack( 0, lower, upper )
            IN  /\ LocalNnzs( t )' = Cardinality( present )
                /\ { LocalStack( t, k )' : k \in 0 .. LocalNnzs( t )' - 1 }
                      = present
                /\ NewNnzs( t )' = 0
                /\ Range( byPresence ) = present
                /\ Range( byStack ) = present
                /\ Len( byPresence ) = Len( byStack ) ]_vars

\* One tile was initialised from the global stack, its two entries not in
\* index order, and another by scanning its presence bits.
C26_Witness ==
    \E w1 \in DOMAIN tiles : \E w2 \in DOMAIN tiles :
        /\ pc[w1] = "inited"
        /\ pc[w2] = "inited"
        /\ tiles[w1].upper - tiles[w1].lower >= _n
        /\ LocalNnzs( TileId( tiles[w1].lower ) ) = 2
        /\ LocalStack( TileId( tiles[w1].lower ), 0 )
              > LocalStack( TileId( tiles[w1].lower ), 1 )
        /\ tiles[w2].upper - tiles[w2].lower < _n

\* C27: the prefix sum that prefixSumComputation stores is inclusive: the
\* value for tile t is the end of the tile's destination range, oldCount
\* plus the counters of tiles 0..t; the start of the range, oldCount plus
\* the counters of tiles 0..t-1, is that value minus the tile's own
\* counter, which is how joinSubset obtains it.
C27_InclusivePrefixSum ==
    JustReconciled =>
        \A t \in AllTiles :
            /\ PrefSum( t ) - NewNnzs( t ) = g_pre.n + SumOfNewNnzs( t - 1 )
            /\ Dest( t ) = g_pre.n + SumOfNewNnzs( t - 1 )
                           .. g_pre.n + SumOfNewNnzs( t ) - 1
            /\ NewNnzs( t ) > 0 => PrefSum( t ) # g_pre.n + SumOfNewNnzs( t - 1 )

\* C27 as stated: the value stored for tile t is the start offset of its
\* destination range, oldCount plus the counters of tiles 0..t-1.
C27_ExclusivePrefixSum ==
    JustReconciled =>
        \A t \in AllTiles : PrefSum( t ) = g_pre.n + SumOfNewNnzs( t - 1 )

\* The prefix sum has run over two or more tiles, the first of which has
\* new nonzeroes, on a structure that was not empty.
C27_Witness ==
    /\ JustReconciled
    /\ analytic_model.num_tiles >= 2
    /\ g_pre.n >= 1
    /\ NewNnzs( 0 ) >= 1
    /\ PrefSum( 0 ) = g_pre.n + NewNnzs( 0 )

\* The slots of tile t's segment (its local count, then tile_size slots of
\* local stack), of the counter array and of the prefix-sum array.
Segment(t) == local_buffer[t] .. local_buffer[t] + analytic_model.tile_size

CounterArray == local_new_nnzs .. local_new_nnzs + analytic_model.num_tiles - 1

PrefSumArray == pref_sum .. pref_sum + analytic_model.num_tiles - 1

\* C28: once localCoordinatesInit has run, the segments of the tiles, of
\* tile_size + 1 slots each, the counter array and the prefix-sum array,
\* of num_tiles slots each, are pairwise disjoint ranges of slots.
C28_DisjointScratch ==
    episode > 0 =>
        /\ \A t \in AllTiles :
              /\ Cardinality( Segment( t ) ) = analytic_model.tile_size + 1
              /\ Segment( t ) \cap CounterArray = {}
              /\ Segment( t ) \cap PrefSumArray = {}
              /\ \A u \in AllTiles \ { t } : Segment( t ) \cap Segment( u ) = {}
        /\ Cardinality( CounterArray ) = analytic_model.num_tiles
        /\ Cardinality( PrefSumArray ) = analytic_model.num_tiles
        /\ CounterArray \cap PrefSumArray = {}

\* Two tiles of two or more indices are bound, and the first has filled
\* its local stack to the last slot of its segment.
C28_Witness ==
    /\ episode > 0
    /\ analytic_model.num_tiles >= 2
    /\ analytic_model.tile_size >= 2
    /\ pc[1] = "active"
    /\ view[1].n = analytic_model.tile_size
    /\ _buffer[local_buffer[0] + analytic_model.tile_size] # Undef

\* The presence indices the loop of clear() has stored to.
Written == { loop.writes[a][2] : a \in DOMAIN loop.writes }

\* C29: with the iterations of clear()'s loop run by concurrent threads in
\* any assignment and interleaving, on a structure that satisfies I1, no
\* presence index is stored to by two iterations and no slot written by
\* one thread is touched by another; when the loop is over no access has
\* gone outside the arrays, the dense branch has stored to every index
\* and the sparse branch to the indices of the stack, each once, and the
\* structure is what the sequential clear() gives.
C29_ParallelClear ==
    /\ \A a, b \in DOMAIN loop.writes :
          loop.writes[a][2] = loop.writes[b][2] => a = b
    /\ \A t1, t2 \in DOMAIN touched :
          t1 # t2 => touched[t1].wr
                     \cap ( touched[t2].rd \cup touched[t2].wr ) = {}
    /\ loop.branch = "done" =>
          /\ ~ fault
          /\ This = clear( loop.before )
          /\ Written = IF isDense( loop.before )
                       THEN 0 .. _cap - 1
                       ELSE StackSet( loop.before )

\* The sparse loop over two or more entries is over; both threads have
\* stored, and the stores did not happen in the order of the iterations.
C29_Witness ==
    /\ loop.branch = "done"
    /\ g_cleared = "sparse"
    /\ loop.before.n >= 2
    /\ \A t \in Threads : touched[t].wr # {}
    /\ loop.writes[1][1] > loop.writes[2][1]

\* The entries of the global stack from the count the episode began with.
Appended == { _stack[k] : k \in g_pre.n .. _n - 1 }

\* C30: in every state of an episode, the first or the one after it, the
\* global stack below the count the episode began with is as it was and
\* the presence bits of those entries are set; once the episode is over
\* the stack from that count on holds exactly the indices that views
\* inserted, each once, the count is the old count plus their number, and
\* I1 holds.
C30_AppendOnly ==
    episode >= 1 =>
        /\ \A k \in 0 .. g_pre.n - 1 :
              /\ _stack[k] = g_pre.stack[k]
              /\ _assigned[g_pre.stack[k]]
        /\ phase = "Idle" =>
              /\ Appended = g_ins \ Present( g_pre )
              /\ _n = g_pre.n + Cardinality( g_ins \ Present( g_pre ) )
              /\ I1( This )
              /\ ~ fault

\* A second episode is over that began with entries on the stack and
\* inserted more, every tile having been joined in both.
C30_Witness ==
    /\ episode = 2
    /\ phase = "Idle"
    /\ g_skipped = {}
    /\ g_pre.n >= 1
    /\ Appended # {}
    /\ _n < _cap

----------------------------------------------------------------------------
\* The global stack slot at which the new entries of range w start: the
\* old count plus the new entries of the ranges before it.
RECURSIVE StartOf(_)
StartOf(w) == IF w = 1 THEN g_pre.n ELSE StartOf( w - 1 ) + Cardinality( NewIn( w - 1 ) )

\* The new part of the global stack is the new parts of the local stacks,
\* each entry plus the tile's lower bound, tile after tile by ascending id.
GroupedByTile ==
    \A w \in DOMAIN tiles :
        LET t == TileId( tiles[w].lower )
        IN  \A k \in 0 .. Cardinality( NewIn( w ) ) - 1 :
                _stack[StartOf( w ) + k]
                    = LocalStack( t, LocalNnzs( t ) + k ) + tiles[w].lower

\* C31: the reconciled global stack is determined as a sequence: an
\* inserting assign on a view appends its index behind the entries the
\* tile's local stack holds, no later step of the episode changes an entry
\* of a local stack, and when the episode is over the new entries of the
\* global stack are those of the tiles, by ascending tile id and within a
\* tile in the order of its local stack, whatever the interleaving of the
\* workers and the order of the joinSubset calls were.
C31_DeterministicStack ==
    [][ /\ \A w \in DOMAIN tiles :
              InsertStep( w ) =>
                LET v == view[w]
                    j == _buffer'[v.stack + v.n]
                IN  /\ view'[w].n = v.n + 1
                    /\ ~ _assigned[tiles[w].lower + j]
                    /\ _assigned'[tiles[w].lower + j]
        /\ phase \in { "Episode", "Reconciled" } =>
              \A w \in DOMAIN tiles :
                  pc[w] \in { "active", "committed", "joined" } =>
                      \A k \in 0 .. view[w].n - 1 :
                          _buffer'[view[w].stack + k]
                              = _buffer[view[w].stack + k]
        /\ EpisodeDone' => GroupedByTile'
      ]_vars

C31_Witness ==
    /\ EpisodeDone
    /\ analytic_model.num_tiles = 2
    /\ g_pre.n = 0
    /\ _n = 3
    /\ _stack[0] = 1
    /\ _stack[1] = 0
    /\ _stack[2] = 2

----------------------------------------------------------------------------
\* The indices of range w that a Coordinates value holds.
PresentIn(c, w) == { i \in Present( c ) : tiles[w].lower <= i /\ i < tiles[w].upper }

\* C32: when asyncJoinSubset is called for a view that asyncSubset gave and
\* that only assign has changed, the count of the view is at least the
\* tile's local count of before the episode, so that the subtraction does
\* not wrap; the recorded counter is the number of indices of the range
\* that are present now and were absent when the episode began, and the
\* counter plus the pre-existing local count is at most the tile's width.
C32_RecordedCount ==
    [][ \A w \in DOMAIN tiles :
          CommitStep( w ) =>
            LET t == TileId( tiles[w].lower )
            IN  /\ view[w].n >= LocalNnzs( t )
                /\ LocalNnzs( t ) = Cardinality( PresentIn( g_pre, w ) )
                /\ NewNnzs( t )' >= 0
                /\ NewNnzs( t )'
                     = Cardinality( PresentIn( This, w ) )
                       - Cardinality( PresentIn( g_pre, w ) )
                /\ NewNnzs( t )' + LocalNnzs( t )
                     <= tiles[w].upper - tiles[w].lower ]_vars

\* A tile that held an entry before the episode has been filled up and
\* committed.
C32_Witness ==
    \E w \in DOMAIN tiles :
        /\ pc[w] = "committed"
        /\ LocalNnzs( TileId( tiles[w].lower ) ) >= 1
        /\ NewNnzs( TileId( tiles[w].lower ) ) >= 1
        /\ NewNnzs( TileId( tiles[w].lower ) )
             + LocalNnzs( TileId( tiles[w].lower ) )
             = tiles[w].upper - tiles[w].lower

----------------------------------------------------------------------------
\* The lower bounds of the ranges are distinct multiples of the tile size
\* and no range is wider than the tile size.
AlignedTiles ==
    /\ \A w \in DOMAIN tiles :
          /\ tiles[w].lower % analytic_model.tile_size = 0
          /\ tiles[w].upper - tiles[w].lower <= analytic_model.tile_size
    /\ \A w1, w2 \in DOMAIN tiles :
          tiles[w1].lower = tiles[w2].lower => w1 = w2

\* The slots of the local stack of range w that its width allows.
LocalStackSlots(w) ==
    { local_buffer[TileId( tiles[w].lower )] + 1 + k :
        k \in 0 .. tiles[w].upper - tiles[w].lower - 1 }

\* The scratch slots a step changes.
ChangedSlots == { a \in DOMAIN _buffer : _buffer'[a] # _buffer[a] }

\* C33: when the lower bounds of the tiles are distinct multiples of the
\* tile size and no tile is wider than the tile size, the tile ids
\* lower / tile_size are pairwise distinct and below num_tiles;
\* asyncSubsetInit fills local stack slots [0, local count) with local
\* count <= width and changes nothing but these, the local count and the
\* tile's counter; an inserting assign on the view writes local stack slot
\* view.n < width and changes no other slot; all these slots lie in the
\* tile's own segment, inside the scratch buffer.
C33_WritesInOwnSegment ==
    [][ ( episode' >= 1 /\ AlignedTiles' ) =>
          /\ \A w1, w2 \in DOMAIN tiles' :
                TileId( tiles[w1].lower )' = TileId( tiles[w2].lower )'
                    => w1 = w2
          /\ \A w \in DOMAIN tiles' :
                /\ TileId( tiles[w].lower )' \in AllTiles'
                /\ LocalStackSlots( w )' \subseteq Segment( TileId( tiles[w].lower ) )'
                /\ Segment( TileId( tiles[w].lower ) )' \subseteq DOMAIN _buffer'
          /\ \A w \in DOMAIN tiles :
                LET t == TileId( tiles[w].lower )
                IN  /\ InitStep( w ) =>
                          /\ LocalNnzs( t )' <= tiles[w].upper - tiles[w].lower
                          /\ ChangedSlots \subseteq
                                { local_buffer[t] + 1 + k :
                                    k \in 0 .. LocalNnzs( t )' - 1 }
                                \cup { local_buffer[t], local_new_nnzs + t }
                    /\ InsertStep( w ) =>
                          /\ view[w].n < tiles[w].upper - tiles[w].lower
                          /\ view[w].stack + view[w].n \in LocalStackSlots( w )
                          /\ ChangedSlots \subseteq { view[w].stack + view[w].n }
      ]_vars

\* Two aligned tiles: the first one, which held an entry, has taken
\* another in the last slot its width allows.
C33_Witness ==
    /\ phase = "Episode"
    /\ AlignedTiles
    /\ Len( tiles ) >= 2
    /\ pc[1] = "active"
    /\ LocalNnzs( 0 ) = 1
    /\ view[1].n = 2
    /\ tiles[1].upper - tiles[1].lower = 2

----------------------------------------------------------------------------
\* The scans of asyncSubsetInit for range w on the structure as it was
\* when the episode began.
RECURSIVE scanAssignedBefore(_, _)
scanAssignedBefore(i, w) ==
    IF i >= tiles[w].upper
    THEN << >>
    ELSE ( IF g_pre.assigned[i] THEN << i - tiles[w].lower >> ELSE << >> )
         \o scanAssignedBefore( i + 1, w )

RECURSIVE scanStackBefore(_, _)
scanStackBefore(i, w) ==
    IF i >= g_pre.n
    THEN << >>
    ELSE ( IF tiles[w].lower <= g_pre.stack[i] /\ g_pre.stack[i] < tiles[w].upper
           THEN << g_pre.stack[i] - tiles[w].lower >>
           ELSE << >> )
         \o scanStackBefore( i + 1, w )

FoundBefore(w) ==
    IF tiles[w].upper - tiles[w].lower < g_pre.n
    THEN scanAssignedBefore( tiles[w].lower, w )
    ELSE scanStackBefore( 0, w )

\* Some other range has been worked on: a view of it was retrieved, has
\* inserted or was committed.
OthersAtWork(w) ==
    \E u \in DOMAIN tiles \ { w } :
        /\ pc[u] \in { "active", "committed" }
        /\ NewIn( u ) # {}

\* C34: whenever asyncSubsetInit runs for a tile in an episode, before,
\* after or between the steps of assign and asyncJoinSubset on views of
\* other tiles, it leaves for its tile the local stack, entry by entry, the
\* local count and the zero counter that it gives on the structure as it
\* was when the episode began, and it changes no slot of another tile; the
\* global count and stack it reads are those of before the episode.
C34_InitCommutes ==
    [][ \A w \in DOMAIN tiles :
          InitStep( w ) =>
            LET t == TileId( tiles[w].lower )
                found == FoundBefore( w )
            IN  /\ _n = g_pre.n
                /\ _stack = g_pre.stack
                /\ \A i \in tiles[w].lower .. tiles[w].upper - 1 :
                      _assigned[i] = g_pre.assigned[i]
                /\ LocalNnzs( t )' = Len( found )
                /\ \A k \in 1 .. Len( found ) :
                      LocalStack( t, k - 1 )' = found[k]
                /\ NewNnzs( t )' = 0
                /\ \A a \in DOMAIN _buffer :
                      a \notin Segment( t ) \cup { local_new_nnzs + t }
                          => _buffer'[a] = _buffer[a] ]_vars

\* A tile has been initialised from the global stack, its two entries not
\* in index order, while another tile holds an index inserted in this
\* episode.
C34_Witness ==
    \E w \in DOMAIN tiles :
        /\ phase = "Episode"
        /\ pc[w] = "inited"
        /\ OthersAtWork( w )
        /\ LocalNnzs( TileId( tiles[w].lower ) ) = 2
        /\ LocalStack( TileId( tiles[w].lower ), 0 ) = 1
        /\ LocalStack( TileId( tiles[w].lower ), 1 ) = 0

----------------------------------------------------------------------------
\* The chunks that write location x in their loop.
WritersOf(x) == { id \in DOMAIN touched : x \in touched[id].wr }

\* C35: in the parallel branch of prefixSumComputation, when the chunks are
\* no more than the tiles, no location written by a chunk in one loop is
\* read or written by another chunk in the same loop; every pref_sum slot
\* and every total slot is written by one chunk per loop, and once a loop
\* is over by exactly one; the slots written are pref_sum[ 0 .. num_tiles )
\* and the chunk's own total; a chunk reads in the first loop only pref_sum
\* slots it has written itself, pref_sum[ upper - 1 ] among them, and reads
\* the total of another chunk only in the second loop, after the barrier;
\* the prefix sums and the count that result are those of the sequential
\* branch.
C35_NoRaceInPrefixSum ==
    ( loop.branch \in { "first", "second", "done" }
      /\ loop.num_tiles <= analytic_model.num_tiles ) =>
        LET chunks == 0 .. loop.num_tiles - 1
            slots == 0 .. analytic_model.num_tiles - 1
        IN  /\ \A id1, id2 \in chunks :
                  id1 # id2 =>
                      touched[id1].wr
                      \cap ( touched[id2].rd \cup touched[id2].wr ) = {}
            /\ \A id \in chunks :
                  /\ \A x \in touched[id].wr :
                        /\ x[2] \in { "pref_sum", "local_prefix_sum" }
                        /\ x[2] = "pref_sum" => x[3] \in slots
                        /\ x[2] = "local_prefix_sum" => x[3] = id
                  /\ \A x \in touched[id].rd :
                        /\ ( x[1] = "first" /\ x[2] = "pref_sum" )
                              => x \in touched[id].wr
                        /\ ( x[2] = "local_prefix_sum" /\ x[3] # id )
                              => x[1] = "second"
                        /\ x[2] = "local_new_nnzs" => x[3] \in slots
                  /\ id \notin loop.todo =>
                        LET r == ChunkRange( id )
                        IN  /\ r.lower < r.upper
                            /\ << loop.branch, "pref_sum", r.upper - 1 >>
                                 \in touched[id].wr \/ loop.branch = "done"
            /\ loop.branch \in { "second", "done" } =>
                  /\ \A i \in slots :
                        Cardinality( WritersOf( << "first", "pref_sum", i >> ) ) = 1
                  /\ \A id \in chunks :
                        WritersOf( << "first", "local_prefix_sum", id >> )
                            = { id }
            /\ loop.branch = "done" =>
                  /\ \A i \in slots :
                        Cardinality( WritersOf( << "second", "pref_sum", i >> ) ) = 1
                  /\ \A t \in slots :
                        PrefSum( t ) = loop.before.n + SumOfNewNnzs( t )
                  /\ _n = PrefSum( analytic_model.num_tiles - 1 )
                  /\ fault = FALSE

\* Three tiles summed in two chunks, the first of two tiles, on a structure
\* that held an entry: the first and the last tile have new entries.
C35_Witness ==
    /\ loop.branch = "done"
    /\ analytic_model.num_tiles = 3
    /\ loop.num_tiles = 2
    /\ loop.before.n = 1
    /\ NewNnzs( 0 ) = 1
    /\ NewNnzs( 2 ) = 1
    /\ _n = 3

----------------------------------------------------------------------------
\* The second prefixSumComputation of the episode.
AgainStep == op' # op /\ op'.name = "prefixSumComputation"

AllCountersZero == \A t \in AllTiles : NewNnzs( t ) = 0

\* C36: every prefixSumComputation adds the sum of the tiles' counters to
\* the global count, so it leaves the count unchanged when every counter is
\* zero; called a second time in the episode before any joinSubset, with
\* some counter not zero, it adds the sum again: the count is then the old
\* count plus twice the sum and exceeds the number of present indices.
C36_NotIdempotent ==
    [][ ( PrefixSumStep \/ AgainStep ) =>
          LET total == SumOfNewNnzs( analytic_model.num_tiles - 1 )
          IN  /\ _n' = _n + total
              /\ AllCountersZero => _n' = _n
              /\ \A t \in AllTiles : NewNnzs( t )' = NewNnzs( t )
              /\ ( AgainStep /\ ~ AllCountersZero ) =>
                    /\ _n = g_pre.n + total
                    /\ _n = Cardinality( Present( This ) )
                    /\ _n' = g_pre.n + 2 * total
                    /\ _n' > Cardinality( Present( This ) )' ]_vars

\* prefixSumComputation has run twice over counters that are not all zero:
\* the count is above the number of present indices.
C36_Witness ==
    /\ op.name = "prefixSumComputation"
    /\ phase = "Reconciled"
    /\ ~ AllCountersZero
    /\ g_pre.n >= 1
    /\ _n > Cardinality( Present( This ) )

----------------------------------------------------------------------------
EveryViewCalled(name) == \A w \in DOMAIN tiles : << name, w >> \in g_calls

\* reset_global_nnz_counter() was called in the episode, and was called
\* when asyncSubsetInit had run on every tile.
ResetCalled == \E e \in g_calls : e[1] = "reset_global_nnz_counter"

ResetCalledAfterInit == << "reset_global_nnz_counter", 0 >> \in g_calls

\* The structure holds the indices assigned through the views since their
\* local_clear and no others.
HoldsWhatWasAssigned ==
    /\ Present( This ) = g_ins
    /\ _n = Cardinality( g_ins )
    /\ I1( This )

\* C37 (as amended): local_clear on a view changes no presence bit outside
\* the tile's range; in an episode in which every view calls local_clear
\* and reset_global_nnz_counter() is called after asyncSubsetInit has run
\* on every tile and before prefixSumComputation, the reconciled structure
\* holds exactly the indices assigned through the views after their
\* local_clear, count equal to their number, and satisfies I1.
C37_LocalClearEpisode ==
    [][ /\ \A w \in DOMAIN tiles :
              BulkStep( w, "local_clear" ) =>
                  /\ \A i \in DOMAIN _assigned :
                        ~ ( tiles[w].lower <= i /\ i < tiles[w].upper )
                            => _assigned'[i] = _assigned[i]
                  /\ view'[w].n = 0
                  /\ LocalNnzs( TileId( tiles[w].lower ) )' = 0
        /\ ( EpisodeDone' /\ EveryViewCalled( "local_clear" )'
                          /\ ResetCalledAfterInit' )
              => ( HoldsWhatWasAssigned' /\ ~ fault' ) ]_vars

\* C37 as stated: the same with reset_global_nnz_counter() called at any
\* time of the episode before prefixSumComputation.
C37_ResetAtAnyTime ==
    [][ ( EpisodeDone' /\ EveryViewCalled( "local_clear" )'
                       /\ ResetCalled' )
              => HoldsWhatWasAssigned' ]_vars

\* Two tiles on a structure that held two entries: both views were
\* cleared, the count was reset once both tiles were initialised, and the
\* episode has left one index, which was not there before.
C37_Witness ==
    /\ EpisodeDone
    /\ Len( tiles ) = 2
    /\ EveryViewCalled( "local_clear" )
    /\ ResetCalledAfterInit
    /\ g_pre.n = 2
    /\ Cardinality( g_ins ) = 1
    /\ g_ins \cap Present( g_pre ) = {}
    /\ _n = 1

----------------------------------------------------------------------------
\* C38: when an episode in which every view has called local_assignAll and
\* reset_global_nnz_counter() was called, at any point before
\* prefixSumComputation, is over, the structure is dense whatever it held
\* before and whichever tiles were partly or fully populated: the count is
\* the capacity, every index is present, stack[0..capacity) is a
\* permutation of [0, capacity) without duplicates, and nothing was
\* written outside the stack.
C38_DenseAfterAssignAll ==
    ( EpisodeDone /\ EveryViewCalled( "local_assignAll" ) /\ ResetCalled ) =>
        /\ _n = _cap
        /\ Dense( This )
        /\ \A k1, k2 \in 0 .. _cap - 1 : _stack[k1] = _stack[k2] => k1 = k2
        /\ I1( This )
        /\ ~ fault

\* Two tiles: the first was full already, its two entries not in index
\* order, and keeps that order on the global stack; the second was filled
\* by local_assignAll.
C38_Witness ==
    /\ EpisodeDone
    /\ EveryViewCalled( "local_assignAll" )
    /\ ResetCalled
    /\ Len( tiles ) = 2
    /\ g_pre.n = 2
    /\ _cap = 3
    /\ _stack[0] = 1
    /\ _stack[1] = 0
    /\ _stack[2] = 2

----------------------------------------------------------------------------
\* The copy constructor has just run; assign was called through the copy.
CopyStep == op' # op /\ op'.name = "Coordinates"

ThroughCopyStep(i) == op' # op /\ op'.name = "copy.assign" /\ op'.i = i

\* C39: the copy constructor copies the six members: the copy's pointers
\* are those of the original, so the two share the presence array and the
\* stack, its count and capacity are copies, and it holds no tile binding.
\* When assign( i ) is then called through the copy for an absent i, on an
\* original that satisfies I1 and has the copy's count, the original sees
\* presence[i] true and i on the stack at the slot of its count, its own
\* count stays as it was, so it no longer satisfies I1, and the counts of
\* the two objects differ.
C39_CopySharesArrays ==
    [][ /\ CopyStep =>
              /\ objs'["copy"].assigned = ThisObject.assigned
              /\ objs'["copy"].stack = ThisObject.stack
              /\ objs'["copy"].buffer = ThisObject.buffer
              /\ objs'["copy"].n = _n
              /\ objs'["copy"].cap = _cap
              /\ objs'["copy"].buf = _buf
              /\ DOMAIN objs'["copy"] = DOMAIN DefaultConstructed
              /\ UNCHANGED << coord, scratch, bindings >>
        /\ \A i \in 0 .. _cap - 1 :
              ( ThroughCopyStep( i ) /\ ~ _assigned[i] /\ I1( This )
                /\ objs["copy"].n = _n ) =>
                  /\ _assigned'[i]
                  /\ _stack'[_n] = i
                  /\ _n' = _n
                  /\ objs'["copy"].n = _n + 1
                  /\ ~ I1( This )'
                  /\ objs'["copy"].n # _n'
                  /\ I1( CopyValue )' ]_vars

\* The original held an entry when it was copied; an index was then
\* assigned through the copy: present for both, counted by the copy only.
C39_Witness ==
    /\ "copy" \in DOMAIN objs
    /\ op.name = "copy.assign"
    /\ _assigned[op.i]
    /\ _n = 1
    /\ objs["copy"].n = 2
    /\ ~ I1( This )
    /\ Cardinality( Present( This ) ) = 2

----------------------------------------------------------------------------
\* C40: whenever the assertions of localCoordinatesInit hold, num_tiles > 0,
\* num_tiles <= maxBufferTiles( _cap ) and _buf >= 4 * num_tiles, the end
\* of the prefix-sum array it binds, num_tiles * ( tile_size + 3 ), is at
\* most _buf, so that every slot bound lies inside the scratch buffer.
C40_BindingsInsideBuffer ==
    ( episode >= 1 /\ Asserted( analytic_model ) ) =>
        /\ analytic_model.num_tiles * ( analytic_model.tile_size + 3 ) <= _buf
        /\ pref_sum + analytic_model.num_tiles <= _buf
        /\ PrefSumArray \subseteq DOMAIN _buffer
        /\ CounterArray \subseteq DOMAIN _buffer
        /\ \A t \in AllTiles : Segment( t ) \subseteq DOMAIN _buffer

====
